---- MODULE Spec2Model ----
(***************************************************************************)
(* A model of the Pearl interpreter: lexer, Pratt parser, tree-walking     *)
(* evaluator and the two drivers (the command line's runCode and the       *)
(* REPL's Start).  Source text is a string, tokens and AST nodes are       *)
(* records, runtime objects are records tagged with their Type(), and the  *)
(* Go heap (environments, arrays, maps) is an explicit store.              *)
(***************************************************************************)
EXTENDS Integers, Sequences, FiniteSets, TLC

VARIABLES
    pc,        \* where the driver stands: "main", "Start" (the REPL's loop) or "exit"
    argv,      \* the command line: the code of -e or of the file, the -check flag
    stdin,     \* the lines the REPL's scanner has not read yet
    buffer,    \* the REPL's multilineBuffer and inMultiline
    world,     \* the heap: environments, arrays, maps; the REPL's env is its first
    run,       \* the last source text handled: its parse and, if Eval ran, its result
    console,   \* what was printed on stdout and stderr, in order
    status     \* the exit status of the process, -1 while it runs

vars == <<pc, argv, stdin, buffer, world, run, console, status>>

RECURSIVE Parse(_)

(***************************************************************************)
(* int64.  TLC's integers are narrower than Go's int64, so an int64 is a   *)
(* tuple of eight bytes, least significant first, in two's complement.     *)
(***************************************************************************)
Byte == 256
Limbs == 8

I64Zero == <<0, 0, 0, 0, 0, 0, 0, 0>>
I64One == <<1, 0, 0, 0, 0, 0, 0, 0>>
I64MinusOne == <<255, 255, 255, 255, 255, 255, 255, 255>>
MaxInt64 == <<255, 255, 255, 255, 255, 255, 255, 127>>
MinInt64 == <<0, 0, 0, 0, 0, 0, 0, 128>>

\* the sign bit
I64IsNeg(a) == a[Limbs] >= 128

\* the bytes i, i + 1, ... of a + b, carry being the carry into byte i
RECURSIVE I64AddFrom(_, _, _, _)
I64AddFrom(a, b, i, carry) ==
    IF i > Limbs THEN <<>>
    ELSE LET bytes(s) == <<s % Byte>> \o I64AddFrom(a, b, i + 1, s \div Byte)
         IN  bytes(a[i] + b[i] + carry)

\* a + b, the carry out of the top byte dropped
I64Add(a, b) == I64AddFrom(a, b, 1, 0)

\* -a: complement and add one (MinInt64 negates to itself)
I64Neg(a) ==
    I64Add(<<255 - a[1], 255 - a[2], 255 - a[3], 255 - a[4], 255 - a[5], 255 - a[6],
             255 - a[7], 255 - a[8]>>, I64One)

I64Sub(a, b) == I64Add(a, I64Neg(b))

\* a * b, the low 64 bits of the product; s_k is the sum of the byte products of
\* column k with the carry into it
I64Mul(a, b) ==
    LET s1 == a[1] * b[1]
        s2 == a[1] * b[2] + a[2] * b[1] + (s1 \div Byte)
        s3 == a[1] * b[3] + a[2] * b[2] + a[3] * b[1] + (s2 \div Byte)
        s4 == a[1] * b[4] + a[2] * b[3] + a[3] * b[2] + a[4] * b[1] + (s3 \div Byte)
        s5 == a[1] * b[5] + a[2] * b[4] + a[3] * b[3] + a[4] * b[2] + a[5] * b[1]
              + (s4 \div Byte)
        s6 == a[1] * b[6] + a[2] * b[5] + a[3] * b[4] + a[4] * b[3] + a[5] * b[2]
              + a[6] * b[1] + (s5 \div Byte)
        s7 == a[1] * b[7] + a[2] * b[6] + a[3] * b[5] + a[4] * b[4] + a[5] * b[3]
              + a[6] * b[2] + a[7] * b[1] + (s6 \div Byte)
        s8 == a[1] * b[8] + a[2] * b[7] + a[3] * b[6] + a[4] * b[5] + a[5] * b[4]
              + a[6] * b[3] + a[7] * b[2] + a[8] * b[1] + (s7 \div Byte)
    IN  <<s1 % Byte, s2 % Byte, s3 % Byte, s4 % Byte, s5 % Byte, s6 % Byte, s7 % Byte,
          s8 % Byte>>

\* unsigned a < b
I64ULess(a, b) ==
    \E m \in 1..Limbs : a[m] < b[m] /\ \A j \in (m + 1)..Limbs : a[j] = b[j]

\* signed a < b
I64Less(a, b) ==
    IF I64IsNeg(a) # I64IsNeg(b) THEN I64IsNeg(a) ELSE I64ULess(a, b)

\* bit i (0 the least significant) of a
I64Bit(a, i) == (a[(i \div 8) + 1] \div (2 ^ (i % 8))) % 2

\* (a << 1) | bit
I64Shl1(a, bit) ==
    <<((a[1] * 2) % Byte) + bit,
      ((a[2] * 2) % Byte) + (a[1] \div 128), ((a[3] * 2) % Byte) + (a[2] \div 128),
      ((a[4] * 2) % Byte) + (a[3] \div 128), ((a[5] * 2) % Byte) + (a[4] \div 128),
      ((a[6] * 2) % Byte) + (a[5] \div 128), ((a[7] * 2) % Byte) + (a[6] \div 128),
      ((a[8] * 2) % Byte) + (a[7] \div 128)>>

\* a with bit i set
I64SetBit(a, i) ==
    [a EXCEPT ![(i \div 8) + 1] = @ + (IF I64Bit(a, i) = 1 THEN 0 ELSE 2 ^ (i % 8))]

\* one step of unsigned shift-and-subtract division of a by b # 0: bit i of a is
\* brought down into the remainder s.r, and bit i of the quotient s.q decided
I64UDivBit(s, a, b, i) ==
    IF s.r = I64Zero /\ I64Bit(a, i) = 0 THEN s
    ELSE LET decided(r1) ==
                 IF I64ULess(r1, b) THEN [q |-> s.q, r |-> r1]
                 ELSE [q |-> I64SetBit(s.q, i), r |-> I64Sub(r1, b)]
         IN  decided(I64Shl1(s.r, I64Bit(a, i)))

\* the steps for the n bits of a that end at bit i, the highest first
RECURSIVE I64UDivBits(_, _, _, _, _)
I64UDivBits(s, a, b, i, n) ==
    IF n = 0 THEN s ELSE I64UDivBit(I64UDivBits(s, a, b, i + 1, n - 1), a, b, i)

\* the steps for the bytes of a from the highest down to byte k (numbered from 1)
RECURSIVE I64UDivBytes(_, _, _)
I64UDivBytes(a, b, k) ==
    IF k > Limbs THEN [q |-> I64Zero, r |-> I64Zero]
    ELSE LET byte(s) ==
                 IF s.r = I64Zero /\ a[k] = 0 THEN s
                 ELSE I64UDivBits(s, a, b, 8 * (k - 1), 8)
         IN  byte(I64UDivBytes(a, b, k + 1))

\* unsigned quotient and remainder, for b # 0
I64UDivMod(a, b) == I64UDivBytes(a, b, 1)

I64Abs(a) == IF I64IsNeg(a) THEN I64Neg(a) ELSE a

\* Go's a / b for b # 0: the quotient truncated toward zero (MinInt64 / -1 wraps)
I64Quo(a, b) ==
    LET signed(q) == IF I64IsNeg(a) # I64IsNeg(b) THEN I64Neg(q) ELSE q
    IN  signed(I64UDivMod(I64Abs(a), I64Abs(b)).q)

\* Go's a % b for b # 0: the remainder has the sign of a
I64Rem(a, b) ==
    LET signed(r) == IF I64IsNeg(a) THEN I64Neg(r) ELSE r
    IN  signed(I64UDivMod(I64Abs(a), I64Abs(b)).r)

\* int64(n) of a small native integer n (a length, a literal of the model)
I64OfNat(n) ==
    <<n % Byte, (n \div Byte) % Byte, (n \div (Byte * Byte)) % Byte,
      n \div (Byte * Byte * Byte), 0, 0, 0, 0>>

I64(n) == IF n >= 0 THEN I64OfNat(n) ELSE I64Neg(I64OfNat(-n))

\* whether a is in lo..hi (small native bounds)
I64InRange(a, lo, hi) == ~I64Less(a, I64(lo)) /\ ~I64Less(I64(hi), a)

\* the native integer of an a known to lie in -2^23 .. 2^23
I64ToInt(a) ==
    IF I64IsNeg(a)
    THEN -(LET m == I64Neg(a) IN m[1] + m[2] * Byte + m[3] * Byte * Byte)
    ELSE a[1] + a[2] * Byte + a[3] * Byte * Byte

(***************************************************************************)
(* Tokens (package token).  A TokenType is the string the source gives it. *)
(***************************************************************************)
keywords ==
    [fn |-> "FN", let |-> "LET", true |-> "TRUE", false |-> "FALSE", if |-> "IF",
     else |-> "ELSE", return |-> "RETURN", for |-> "FOR", in |-> "IN",
     while |-> "WHILE", and |-> "AND", or |-> "OR", not |-> "NOT", null |-> "NULL",
     try |-> "TRY", catch |-> "CATCH"]

LookupIdent(ident) == IF ident \in DOMAIN keywords THEN keywords[ident] ELSE "IDENT"

Token(type, literal, ln, col) == [Type |-> type, Literal |-> literal, Line |-> ln, Col |-> col]

(***************************************************************************)
(* The lexer (package lexer).  A Lexer is a record of its fields; pos and  *)
(* readPos count bytes from 0 as in the source, and ch is a one-character  *)
(* string, NUL standing for the byte 0 that marks the end of the input.    *)
(***************************************************************************)
NUL == ""

LowerLetters ==
    {"a", "b", "c", "d", "e", "f", "g", "h", "i", "j", "k", "l", "m",
     "n", "o", "p", "q", "r", "s", "t", "u", "v", "w", "x", "y", "z"}

UpperLetters ==
    {"A", "B", "C", "D", "E", "F", "G", "H", "I", "J", "K", "L", "M",
     "N", "O", "P", "Q", "R", "S", "T", "U", "V", "W", "X", "Y", "Z"}

Digits == {"0", "1", "2", "3", "4", "5", "6", "7", "8", "9"}

isLetter(ch) == ch \in LowerLetters \/ ch \in UpperLetters \/ ch = "_"

isDigit(ch) == ch \in Digits

\* input[i], i counted from 0
ByteAt(input, i) == SubSeq(input, i + 1, i + 1)

\* input[from:to]
Slice(input, from, to) == SubSeq(input, from + 1, to)

peekChar(l) == IF l.readPos >= Len(l.input) THEN NUL ELSE ByteAt(l.input, l.readPos)

\* the lexer once it has read the character ch, the one at readPos
advance(l, ch) ==
    [input |-> l.input, pos |-> l.readPos, readPos |-> l.readPos + 1, ch |-> ch,
     line |-> IF ch = "\n" THEN l.line + 1 ELSE l.line,
     col |-> IF ch = "\n" THEN 0 ELSE l.col + 1]

readChar(l) == advance(l, peekChar(l))

NewLexer(input) ==
    readChar([input |-> input, pos |-> 0, readPos |-> 0, ch |-> NUL, line |-> 1, col |-> 0])

RECURSIVE skipWhitespace(_)
skipWhitespace(l) ==
    IF l.ch = " " \/ l.ch = "\t" \/ l.ch = "\r" THEN skipWhitespace(readChar(l)) ELSE l

RECURSIVE skipComment(_)
skipComment(l) == IF l.ch # "\n" /\ l.ch # NUL THEN skipComment(readChar(l)) ELSE l

newToken(l, tokenType, ch) == Token(tokenType, ch, l.line, l.col)

\* the lexer after the loop of readIdentifier; the identifier is input[pos:l.pos]
RECURSIVE readIdentifier(_)
readIdentifier(l) ==
    IF isLetter(l.ch) \/ isDigit(l.ch) \/ l.ch = "_" THEN readIdentifier(readChar(l)) ELSE l

RECURSIVE readDigits(_)
readDigits(l) == IF isDigit(l.ch) THEN readDigits(readChar(l)) ELSE l

\* the lexer after readNumber, and whether a fraction was read
readNumber(l) ==
    LET fraction(l1) ==
            IF l1.ch = "." /\ isDigit(peekChar(l1))
            THEN [l |-> readDigits(readChar(l1)), isFloat |-> TRUE]
            ELSE [l |-> l1, isFloat |-> FALSE]
    IN  fraction(readDigits(l))

\* up to n turns of the loop of readString: l stands after the opening quote
RECURSIVE readStringSteps(_, _, _)
readStringSteps(l, result, n) ==
    IF n = 0 \/ l.ch = "\"" \/ l.ch = NUL THEN [l |-> l, result |-> result]
    ELSE IF l.ch = "\\"
         THEN LET escaped(l1) ==
                      readStringSteps(readChar(l1),
                                      result \o CASE l1.ch = "n" -> "\n"
                                                  [] l1.ch = "t" -> "\t"
                                                  [] l1.ch = "r" -> "\r"
                                                  [] l1.ch = "\"" -> "\""
                                                  [] l1.ch = "\\" -> "\\"
                                                  [] l1.ch = "{" -> "{"
                                                  [] OTHER -> "\\" \o l1.ch,
                                      n - 1)
              IN  escaped(readChar(l))
         ELSE readStringSteps(readChar(l), result \o l.ch, n - 1)

\* the loop of readString, run to the closing quote or the end of the input
RECURSIVE readStringLoop(_, _)
readStringLoop(l, result) ==
    LET more(r) == IF r.l.ch = "\"" \/ r.l.ch = NUL THEN r ELSE readStringLoop(r.l, r.result)
    IN  more(readStringSteps(l, result, 16))

readString(l) ==
    LET closed(r) == [l |-> IF r.l.ch = "\"" THEN readChar(r.l) ELSE r.l, result |-> r.result]
    IN  closed(readStringLoop(readChar(l), ""))

\* the loop shared by ReadRegex and ReadRegexFromStart
RECURSIVE readRegexLoop(_, _)
readRegexLoop(l, result) ==
    IF l.ch = "/" \/ l.ch = NUL \/ l.ch = "\n" THEN [l |-> l, result |-> result]
    ELSE IF l.ch = "\\"
         THEN LET escaped(l1) == readRegexLoop(readChar(l1), result \o "\\" \o l1.ch)
              IN  escaped(readChar(l))
         ELSE readRegexLoop(readChar(l), result \o l.ch)

\* ReadRegex: the opening / is already consumed; ok is whether err is nil
ReadRegex(l) ==
    LET closed(r) ==
            IF r.l.ch # "/"
            THEN [l |-> r.l, pattern |-> "", ok |-> FALSE, err |-> "unterminated regex"]
            ELSE [l |-> readChar(r.l), pattern |-> r.result, ok |-> TRUE, err |-> ""]
    IN  closed(readRegexLoop(l, ""))

\* the tokens of one character that NextToken makes with newToken
SingleCharTokens ==
    [c \in {"-", "*", "/", "%", "~", ";", ":", ",", "(", ")", "{", "}", "[", "]", "\n"} |->
        CASE c = "-" -> "-" [] c = "*" -> "*" [] c = "/" -> "/" [] c = "%" -> "%"
          [] c = "~" -> "~" [] c = ";" -> ";" [] c = ":" -> ":" [] c = "," -> ","
          [] c = "(" -> "(" [] c = ")" -> ")" [] c = "{" -> "{" [] c = "}" -> "}"
          [] c = "[" -> "[" [] c = "]" -> "]" [] c = "\n" -> "NEWLINE"]

\* a two-character operator: the token is stamped after the first readChar, l1
twoCharToken(l1, type, literal) ==
    [tok |-> Token(type, literal, l1.line, l1.col), l |-> readChar(l1)]

TwoChar(l, type, literal) == twoCharToken(readChar(l), type, literal)

\* the STRING token of what readString read, r
stringToken(r) == [tok |-> Token("STRING", r.result, r.l.line, r.l.col), l |-> r.l]

\* the token of the identifier input[l.pos:l1.pos]
identToken(l, l1) ==
    LET ident(lit) == [tok |-> Token(LookupIdent(lit), lit, l1.line, l1.col), l |-> l1]
    IN  ident(Slice(l.input, l.pos, l1.pos))

\* the INT or FLOAT token of what readNumber read, r
numberToken(l, r) ==
    [tok |-> Token(IF r.isFloat THEN "FLOAT" ELSE "INT", Slice(l.input, l.pos, r.l.pos),
                   l.line, l.col),
     l |-> r.l]

OneChar(l, type) == [tok |-> newToken(l, type, l.ch), l |-> readChar(l)]

RECURSIVE NextToken(_)

\* NextToken once skipWhitespace has run: the token and the lexer after it
tokenAt(l, ch, pk) ==
        CASE ch = "=" ->
                IF pk = "=" THEN TwoChar(l, "==", "==")
                ELSE IF pk = ">" THEN TwoChar(l, "=>", "=>")
                ELSE OneChar(l, "=")
          [] ch = "+" -> IF pk = "+" THEN TwoChar(l, "++", "++") ELSE OneChar(l, "+")
          [] ch = "!" ->
                IF pk = "=" THEN TwoChar(l, "!=", "!=")
                ELSE IF pk = "~" THEN TwoChar(l, "!~", "!~")
                ELSE OneChar(l, "!")
          [] ch = "<" -> IF pk = "=" THEN TwoChar(l, "<=", "<=") ELSE OneChar(l, "<")
          [] ch = ">" -> IF pk = "=" THEN TwoChar(l, ">=", ">=") ELSE OneChar(l, ">")
          [] ch = "." -> IF pk = "." THEN TwoChar(l, "..", "..") ELSE OneChar(l, "ILLEGAL")
          [] ch = "|" -> IF pk = ">" THEN TwoChar(l, "|>", "|>") ELSE OneChar(l, "ILLEGAL")
          [] ch \in DOMAIN SingleCharTokens -> OneChar(l, SingleCharTokens[ch])
          [] ch = "\"" -> stringToken(readString(l))
          [] ch = "#" -> NextToken(skipComment(l))
          [] ch = NUL -> [tok |-> Token("EOF", "", l.line, l.col), l |-> readChar(l)]
          [] isLetter(ch) -> identToken(l, readIdentifier(l))
          [] isDigit(ch) -> numberToken(l, readNumber(l))
          [] OTHER -> OneChar(l, "ILLEGAL")

NextToken(l) == LET at(l1) == tokenAt(l1, l1.ch, peekChar(l1)) IN at(skipWhitespace(l))

\* the token types of a whole input, EOF included (for inspection)
RECURSIVE TokenTypes(_)
TokenTypes(l) ==
    LET types(r) == IF r.tok.Type = "EOF" THEN <<"EOF">> ELSE <<r.tok.Type>> \o TokenTypes(r.l)
    IN  types(NextToken(l))

(***************************************************************************)
(* The AST (package ast, not among the sources: the node set is the one    *)
(* the parser builds and the evaluator dispatches on).  A node is a record *)
(* with its Go type in kind; the Token a node carries is left out, as no   *)
(* code reads it after parsing.  NIL is the nil interface; a statement     *)
(* parser that returns a nil pointer yields a typed nil, which is not NIL  *)
(* once it is held in an ast.Statement.                                    *)
(***************************************************************************)
NIL == [kind |-> "nil"]

TypedNil(type) == [kind |-> "typednil", type |-> type]

(***************************************************************************)
(* The parser (package parser).  A Parser is a record of its lexer, its    *)
(* errors and its two tokens; every parse routine returns the parser after *)
(* it together with what the Go routine returns.                           *)
(***************************************************************************)
LOWEST == 1
ASSIGN_PREC == 2
PIPE_PREC == 3
OR_PREC == 4
AND_PREC == 5
EQUALS == 6
LESSGREATER == 7
MATCH_PREC == 8
RANGE_PREC == 9
SUM == 10
PRODUCT == 11
PREFIX == 12
CALL == 13
INDEX == 14

precedences ==
    ("=" :> ASSIGN_PREC) @@ ("|>" :> PIPE_PREC) @@ ("OR" :> OR_PREC) @@ ("AND" :> AND_PREC)
    @@ ("==" :> EQUALS) @@ ("!=" :> EQUALS)
    @@ ("<" :> LESSGREATER) @@ (">" :> LESSGREATER) @@ ("<=" :> LESSGREATER)
    @@ (">=" :> LESSGREATER)
    @@ ("~" :> MATCH_PREC) @@ ("!~" :> MATCH_PREC) @@ (".." :> RANGE_PREC)
    @@ ("+" :> SUM) @@ ("-" :> SUM) @@ ("++" :> SUM)
    @@ ("/" :> PRODUCT) @@ ("*" :> PRODUCT) @@ ("%" :> PRODUCT)
    @@ ("(" :> CALL) @@ ("[" :> INDEX)

\* the token types New registers a prefix routine for
prefixParseFns ==
    {"IDENT", "INT", "FLOAT", "STRING", "TRUE", "FALSE", "NULL", "!", "-", "NOT",
     "(", "IF", "FN", "[", "{", "/"}

\* the token types New registers parseInfixExpression for
infixOperatorTokens ==
    {"+", "-", "/", "*", "%", "++", "==", "!=", "<", ">", "<=", ">=", "AND", "OR"}

\* the token types New registers an infix routine for
infixParseFns == infixOperatorTokens \cup {"~", "!~", "..", "|>", "(", "[", "="}

DigitChars == <<"0", "1", "2", "3", "4", "5", "6", "7", "8", "9">>

\* %d of a native integer n >= 0
RECURSIVE Itoa(_)
Itoa(n) == IF n < 10 THEN DigitChars[n + 1] ELSE Itoa(n \div 10) \o DigitChars[(n % 10) + 1]

\* the zero value of token.Token
ZeroToken == Token("", "", 0, 0)

addError(p, msg) ==
    [p EXCEPT !.errors = Append(@, "line " \o Itoa(p.curToken.Line) \o ", col "
                                       \o Itoa(p.curToken.Col) \o ": " \o msg)]

nextToken(p) ==
    LET shifted(r) ==
            [l |-> r.l, errors |-> p.errors, curToken |-> p.peekToken, peekToken |-> r.tok]
    IN  shifted(NextToken(p.l))

NewParser(l) ==
    nextToken(nextToken([l |-> l, errors |-> <<>>, curToken |-> ZeroToken,
                         peekToken |-> ZeroToken]))

curTokenIs(p, t) == p.curToken.Type = t

peekTokenIs(p, t) == p.peekToken.Type = t

peekError(p, t) == addError(p, "expected " \o t \o ", got " \o p.peekToken.Type \o " instead")

\* expectPeek, next being nextToken(p): the parser after it and what it returns
expectPeek(p, next, t) ==
    IF peekTokenIs(p, t) THEN [p |-> next, ok |-> TRUE]
    ELSE [p |-> peekError(p, t), ok |-> FALSE]

peekPrecedence(p) ==
    IF p.peekToken.Type \in DOMAIN precedences THEN precedences[p.peekToken.Type] ELSE LOWEST

curPrecedence(p) ==
    IF p.curToken.Type \in DOMAIN precedences THEN precedences[p.curToken.Type] ELSE LOWEST

parseIdentifier(p) == [p |-> p, node |-> [kind |-> "Identifier", Value |-> p.curToken.Literal]]

DigitValue(c) == CHOOSE d \in 0..9 : DigitChars[d + 1] = c

\* the digits of s from position i on, accumulated in the given base; ok is FALSE
\* for a digit outside the base and for a value above MaxInt64
\* MaxInt64 / 10 and MaxInt64 / 8; MaxInt64 leaves 7 over in both divisions
MaxInt64Div10 == <<204, 204, 204, 204, 204, 204, 204, 12>>

MaxInt64Div8 == <<255, 255, 255, 255, 255, 255, 255, 15>>

RECURSIVE parseDigits(_, _, _, _)
parseDigits(s, i, base, acc) ==
    IF i > Len(s) THEN [ok |-> TRUE, value |-> acc]
    ELSE LET d == DigitValue(SubSeq(s, i, i))
             lim == IF base = 8 THEN MaxInt64Div8 ELSE MaxInt64Div10
         IN  IF d >= base \/ I64Less(lim, acc) \/ (acc = lim /\ d > 7)
             THEN [ok |-> FALSE, value |-> I64Zero]
             ELSE parseDigits(s, i + 1, base, I64Add(I64Mul(acc, I64(base)), I64(d)))

\* strconv.ParseInt(s, 0, 64) of a run of digits: a leading 0 makes it octal
ParseInt(s) ==
    IF Len(s) > 1 /\ SubSeq(s, 1, 1) = "0" THEN parseDigits(s, 2, 8, I64Zero)
    ELSE parseDigits(s, 1, 10, I64Zero)

parseIntegerLiteral(p) ==
    LET r == ParseInt(p.curToken.Literal)
    IN  IF ~r.ok
        THEN [p |-> addError(p, "could not parse \"" \o p.curToken.Literal \o "\" as integer"),
              node |-> NIL]
        ELSE [p |-> p, node |-> [kind |-> "IntegerLiteral", Value |-> r.value]]

\* 10^k for the few digits a literal of the inputs has
RECURSIVE Pow10(_)
Pow10(k) == IF k = 0 THEN 1 ELSE 10 * Pow10(k - 1)

RECURSIVE NatOfDigits(_, _)
NatOfDigits(s, acc) ==
    IF s = "" THEN acc ELSE NatOfDigits(SubSeq(s, 2, Len(s)), acc * 10 + DigitValue(SubSeq(s, 1, 1)))

\* the position of the first "." of s
DotAt(s) == CHOOSE i \in 1..Len(s) : SubSeq(s, i, i) = "." /\ \A j \in 1..(i - 1) : SubSeq(s, j, j) # "."

\* strconv.ParseFloat of digits "." digits, kept as the exact fraction num / den
ParseFloat(s) ==
    LET i == DotAt(s)
        frac == SubSeq(s, i + 1, Len(s))
    IN  [num |-> NatOfDigits(SubSeq(s, 1, i - 1) \o frac, 0), den |-> Pow10(Len(frac))]

parseFloatLiteral(p) ==
    [p |-> p, node |-> [kind |-> "FloatLiteral", Value |-> ParseFloat(p.curToken.Literal)]]

parseBoolean(p) == [p |-> p, node |-> [kind |-> "Boolean", Value |-> curTokenIs(p, "TRUE")]]

parseNull(p) == [p |-> p, node |-> [kind |-> "NullLiteral"]]

\* a scan that ends at the first closing brace, whatever the depth: against this
\* variant C17 fails
RECURSIVE matchBraceFirst(_, _, _)
matchBraceFirst(s, j, depth) ==
    IF j < Len(s) /\ depth > 0
    THEN matchBraceFirst(s, j + 1, IF ByteAt(s, j) = "}" THEN 0 ELSE depth)
    ELSE [j |-> j, depth |-> depth]

\* the scan of parseStringParts for the brace that closes the one before start:
\* the j and depth its inner loop ends with (positions count from 0)
RECURSIVE matchBrace(_, _, _)
matchBrace(s, j, depth) ==
    IF j < Len(s) /\ depth > 0
    THEN LET c == ByteAt(s, j)
         IN  matchBrace(s, j + 1, IF c = "{" THEN depth + 1 ELSE IF c = "}" THEN depth - 1 ELSE depth)
    ELSE [j |-> j, depth |-> depth]

\* the end of the run of text from i that holds no {
RECURSIVE textEnd(_, _)
textEnd(s, i) == IF i < Len(s) /\ ByteAt(s, i) # "{" THEN textEnd(s, i + 1) ELSE i

TextPart(text) == [IsExpr |-> FALSE, Text |-> text, Expr |-> NIL]

ExprPart(expr) == [IsExpr |-> TRUE, Text |-> "", Expr |-> expr]

\* parts without the span whose sub-parser recorded a diagnostic: against this
\* variant C30 fails
RECURSIVE parseStringPartsFromSound(_, _, _)
parseStringPartsFromSound(s, i, parts) ==
    IF i >= Len(s) THEN parts
    ELSE IF ByteAt(s, i) = "{"
    THEN LET m == matchBrace(s, i + 1, 1)
         IN  IF m.depth = 0
             THEN LET sub == Parse(Slice(s, i + 1, m.j - 1))
                      stmts == sub.program.Statements
                  IN  parseStringPartsFromSound(s, m.j,
                          IF Len(stmts) > 0 /\ stmts[1].kind = "ExpressionStatement"
                             /\ sub.errors = <<>>
                          THEN Append(parts, ExprPart(stmts[1].Expression))
                          ELSE parts)
             ELSE parseStringPartsFromSound(s, i + 1, Append(parts, TextPart(ByteAt(s, i))))
    ELSE LET e == textEnd(s, i)
         IN  parseStringPartsFromSound(s, e, Append(parts, TextPart(Slice(s, i, e))))

\* parseStringParts: the loop from position i on, parts being what is collected so far
RECURSIVE parseStringPartsFrom(_, _, _)
parseStringPartsFrom(s, i, parts) ==
    IF i >= Len(s) THEN parts
    ELSE IF ByteAt(s, i) = "{"
    THEN LET m == matchBrace(s, i + 1, 1)
         IN  IF m.depth = 0
             THEN LET stmts == Parse(Slice(s, i + 1, m.j - 1)).program.Statements
                  IN  parseStringPartsFrom(s, m.j,
                          IF Len(stmts) > 0 /\ stmts[1].kind = "ExpressionStatement"
                          THEN Append(parts, ExprPart(stmts[1].Expression))
                          ELSE parts)
             ELSE parseStringPartsFrom(s, i + 1, Append(parts, TextPart(ByteAt(s, i))))
    ELSE LET e == textEnd(s, i)
         IN  parseStringPartsFrom(s, e, Append(parts, TextPart(Slice(s, i, e))))

parseStringParts(s) == parseStringPartsFrom(s, 0, <<>>)

parseStringLiteral(p) ==
    [p |-> p, node |-> [kind |-> "StringLiteral", Value |-> p.curToken.Literal,
                        Parts |-> parseStringParts(p.curToken.Literal)]]

parseRegexLiteral(p) ==
    LET r == ReadRegex(p.l)
        p1 == [p EXCEPT !.l = r.l]
    IN  IF ~r.ok THEN [p |-> addError(p1, "invalid regex: " \o r.err), node |-> NIL]
        ELSE [p |-> p1, node |-> [kind |-> "RegexLiteral", Pattern |-> r.pattern]]

parseMatchExpression(p, left) ==
    LET r == ReadRegex(p.l)
        p1 == [p EXCEPT !.l = r.l]
    IN  IF ~r.ok THEN [p |-> addError(p1, "invalid regex: " \o r.err), node |-> NIL]
        ELSE LET nt == NextToken(r.l)
             IN  [p |-> [l |-> nt.l, errors |-> p.errors,
                         curToken |-> Token("REGEX", "/" \o r.pattern \o "/", 0, 0),
                         peekToken |-> nt.tok],
                  node |-> [kind |-> "InfixExpression", Operator |-> p.curToken.Literal,
                            Left |-> left,
                            Right |-> [kind |-> "RegexLiteral", Pattern |-> r.pattern]]]


(***************************************************************************)
(* The routines of the parser that call one another are run on an explicit *)
(* call stack.  A machine m holds the Parser p, the stack k of frames (the *)
(* running routine first), the value ret the last routine returned and the *)
(* count of steps taken.  A frame holds its routine fn, the point pc where *)
(* it resumes and its locals; each routine below is the Go routine of the  *)
(* same name, cut at its calls.  A routine is given, in a, the parsers     *)
(* that one to four calls of nextToken lead to from m.p.                   *)
(***************************************************************************)
ParseFuel == 512

\* the running routine calls g and resumes as frame f
Call(m, f, g) == [m EXCEPT !.k = <<g, f>> \o Tail(@)]

\* the running routine goes on as frame f, having got v
Resume(m, f, v) == [m EXCEPT !.k = <<f>> \o Tail(@), !.ret = v]

\* the running routine returns v
Return(m, v) == [m EXCEPT !.k = Tail(@), !.ret = v]

WithParser(m, p) == [m EXCEPT !.p = p]

At(f, n) == [f EXCEPT !.pc = n]

parseExpressionFrame(precedence) == [fn |-> "parseExpression", pc |-> 0, precedence |-> precedence]

parseBlockStatementFrame == [fn |-> "parseBlockStatement", pc |-> 0, statements |-> <<>>]

\* the prefix routines that call no other routine
prefixLeaf(p) ==
    LET t == p.curToken.Type
    IN  CASE t = "IDENT" -> parseIdentifier(p)
          [] t = "INT" -> parseIntegerLiteral(p)
          [] t = "FLOAT" -> parseFloatLiteral(p)
          [] t = "STRING" -> parseStringLiteral(p)
          [] t \in {"TRUE", "FALSE"} -> parseBoolean(p)
          [] t = "NULL" -> parseNull(p)
          [] t = "/" -> parseRegexLiteral(p)

\* the frame of the prefix routine registered for a token type that calls others
prefixFrame(t) ==
    CASE t \in {"!", "-", "NOT"} -> [fn |-> "parsePrefixExpression", pc |-> 0, Operator |-> ""]
      [] t = "(" -> [fn |-> "parseGroupedExpression", pc |-> 0]
      [] t = "IF" -> [fn |-> "parseIfExpression", pc |-> 0, Condition |-> NIL,
                      Consequence |-> NIL]
      [] t = "FN" -> [fn |-> "parseFunctionLiteral", pc |-> 0, Name |-> "",
                      Parameters |-> <<>>]
      [] t = "[" -> [fn |-> "parseArrayLiteral", pc |-> 0]
      [] t = "{" -> [fn |-> "parseMapLiteral", pc |-> 0, pairs |-> <<>>, key |-> NIL]

\* the frame of the infix routine registered for a token type, given the left operand
infixFrame(t, left) ==
    CASE t \in infixOperatorTokens ->
             [fn |-> "parseInfixExpression", pc |-> 0, left |-> left, Operator |-> ""]
      [] t = ".." -> [fn |-> "parseRangeExpression", pc |-> 0, left |-> left]
      [] t = "|>" -> [fn |-> "parsePipeExpression", pc |-> 0, left |-> left]
      [] t = "(" -> [fn |-> "parseCallExpression", pc |-> 0, function |-> left]
      [] t = "[" -> [fn |-> "parseIndexExpression", pc |-> 0, left |-> left]
      [] t = "=" -> [fn |-> "parseAssignExpression", pc |-> 0, left |-> left]

\* parseExpression: at 0 the prefix routine is chosen; at 1 leftExp has come back
\* in ret and the loop over the infix operators is at its head
parseExpression(m, f, a) ==
    LET p == m.p
    IN  IF f.pc = 0
        THEN IF p.curToken.Type \notin prefixParseFns
             THEN Return(WithParser(m, addError(p, "no prefix parse function for "
                                                   \o p.curToken.Type)), NIL)
             ELSE IF p.curToken.Type \in {"IDENT", "INT", "FLOAT", "STRING", "TRUE", "FALSE",
                                          "NULL", "/"}
             THEN LET r == prefixLeaf(p) IN Resume(WithParser(m, r.p), At(f, 1), r.node)
             ELSE Call(m, At(f, 1), prefixFrame(p.curToken.Type))
        ELSE IF ~peekTokenIs(p, ";") /\ ~peekTokenIs(p, "NEWLINE")
                /\ f.precedence < peekPrecedence(p)
        THEN IF p.peekToken.Type \notin infixParseFns THEN Return(m, m.ret)
             ELSE IF p.peekToken.Type \in {"~", "!~"}
             THEN LET r == parseMatchExpression(a[1], m.ret)
                  IN  Resume(WithParser(m, r.p), f, r.node)
             ELSE Call(WithParser(m, a[1]), f, infixFrame(p.peekToken.Type, m.ret))
        ELSE Return(m, m.ret)

parsePrefixExpression(m, f, a) ==
    IF f.pc = 0
    THEN Call(WithParser(m, a[1]), [f EXCEPT !.pc = 1, !.Operator = m.p.curToken.Literal],
              parseExpressionFrame(PREFIX))
    ELSE Return(m, [kind |-> "PrefixExpression", Operator |-> f.Operator, Right |-> m.ret])

\* parseInfixExpression with the right operand parsed at LOWEST
parseInfixExpressionAtLowest(m, f, a) ==
    IF f.pc = 0
    THEN Call(WithParser(m, a[1]), [f EXCEPT !.pc = 1, !.Operator = m.p.curToken.Literal],
              parseExpressionFrame(LOWEST))
    ELSE Return(m, [kind |-> "InfixExpression", Operator |-> f.Operator, Left |-> f.left,
                    Right |-> m.ret])

parseInfixExpression(m, f, a) ==
    IF f.pc = 0
    THEN Call(WithParser(m, a[1]), [f EXCEPT !.pc = 1, !.Operator = m.p.curToken.Literal],
              parseExpressionFrame(curPrecedence(m.p)))
    ELSE Return(m, [kind |-> "InfixExpression", Operator |-> f.Operator, Left |-> f.left,
                    Right |-> m.ret])

parseRangeExpression(m, f, a) ==
    IF f.pc = 0 THEN Call(WithParser(m, a[1]), At(f, 1), parseExpressionFrame(RANGE_PREC))
    ELSE Return(m, [kind |-> "RangeLiteral", Start |-> f.left, End |-> m.ret])

parsePipeExpression(m, f, a) ==
    IF f.pc = 0 THEN Call(WithParser(m, a[1]), At(f, 1), parseExpressionFrame(PIPE_PREC))
    ELSE Return(m, [kind |-> "PipeExpression", Left |-> f.left, Right |-> m.ret])

parseAssignExpression(m, f, a) ==
    IF f.pc = 0 THEN Call(WithParser(m, a[1]), At(f, 1), parseExpressionFrame(LOWEST))
    ELSE Return(m, [kind |-> "AssignExpression", Name |-> f.left, Value |-> m.ret])

parseGroupedExpression(m, f, a) ==
    IF f.pc = 0 THEN Call(WithParser(m, a[1]), At(f, 1), parseExpressionFrame(LOWEST))
    ELSE LET e == expectPeek(m.p, a[1], ")")
         IN  Return(WithParser(m, e.p), IF e.ok THEN m.ret ELSE NIL)

parseIndexExpression(m, f, a) ==
    IF f.pc = 0 THEN Call(WithParser(m, a[1]), At(f, 1), parseExpressionFrame(LOWEST))
    ELSE LET e == expectPeek(m.p, a[1], "]")
         IN  Return(WithParser(m, e.p),
                    IF e.ok THEN [kind |-> "IndexExpression", Left |-> f.left, Index |-> m.ret]
                    ELSE NIL)

\* parseIfExpression: at 1 the condition has come back, at 2 the consequence, at 3
\* the alternative
parseIfExpression(m, f, a) ==
    CASE f.pc = 0 -> Call(WithParser(m, a[1]), At(f, 1), parseExpressionFrame(LOWEST))
      [] f.pc = 1 ->
             LET e == expectPeek(m.p, a[1], "{")
             IN  IF ~e.ok THEN Return(WithParser(m, e.p), NIL)
                 ELSE Call(WithParser(m, e.p), [f EXCEPT !.pc = 2, !.Condition = m.ret],
                           parseBlockStatementFrame)
      [] f.pc = 2 ->
             IF peekTokenIs(m.p, "ELSE")
             THEN LET e == expectPeek(a[1], a[2], "{")
                  IN  IF ~e.ok THEN Return(WithParser(m, e.p), NIL)
                      ELSE Call(WithParser(m, e.p), [f EXCEPT !.pc = 3, !.Consequence = m.ret],
                                parseBlockStatementFrame)
             ELSE Return(m, [kind |-> "IfExpression", Condition |-> f.Condition,
                             Consequence |-> m.ret, Alternative |-> NIL])
      [] f.pc = 3 ->
             Return(m, [kind |-> "IfExpression", Condition |-> f.Condition,
                        Consequence |-> f.Consequence, Alternative |-> m.ret])

\* a loop that does not call nextToken after a statement: against this variant C27
\* fails
parseStatementsStuck(m, f, a, stops, node) ==
    IF f.pc = 1
    THEN IF m.p.curToken.Type \in stops
         THEN Return(m, [kind |-> node, Statements |-> f.statements])
         ELSE IF curTokenIs(m.p, "NEWLINE") THEN WithParser(m, a[1])
         ELSE Call(m, At(f, 2), [fn |-> "parseStatement", pc |-> 0])
    ELSE Resume(m,
                [f EXCEPT !.pc = 1,
                          !.statements = IF m.ret # NIL THEN Append(@, m.ret) ELSE @],
                m.ret)

\* the loop shared by ParseProgram and parseBlockStatement, curToken being the first
\* token not yet parsed: at 1 the loop is at its head, at 2 a statement has come back
\* and is kept unless it is the nil interface
parseStatements(m, f, a, stops, node) ==
    IF f.pc = 1
    THEN IF m.p.curToken.Type \in stops
         THEN Return(m, [kind |-> node, Statements |-> f.statements])
         ELSE IF curTokenIs(m.p, "NEWLINE") THEN WithParser(m, a[1])
         ELSE Call(m, At(f, 2), [fn |-> "parseStatement", pc |-> 0])
    ELSE Resume(WithParser(m, a[1]),
                [f EXCEPT !.pc = 1,
                          !.statements = IF m.ret # NIL THEN Append(@, m.ret) ELSE @],
                m.ret)

ParseProgram(m, f, a) ==
    IF f.pc = 0 THEN Resume(m, At(f, 1), m.ret)
    ELSE parseStatements(m, f, a, {"EOF"}, "Program")

\* parseBlockStatement with that loop
parseBlockStatementStuck(m, f, a) ==
    IF f.pc = 0 THEN Resume(WithParser(m, a[1]), At(f, 1), m.ret)
    ELSE parseStatementsStuck(m, f, a, {"}", "EOF"}, "BlockStatement")

parseBlockStatement(m, f, a) ==
    IF f.pc = 0 THEN Resume(WithParser(m, a[1]), At(f, 1), m.ret)
    ELSE parseStatements(m, f, a, {"}", "EOF"}, "BlockStatement")

\* parseStatement hands over to the routine of the statement; what that routine
\* returns is returned as an ast.Statement
parseStatement(m, f) ==
    LET t == m.p.curToken.Type
    IN  Resume(m,
               CASE t = "LET" -> [fn |-> "parseLetStatement", pc |-> 0, Name |-> ""]
                 [] t = "RETURN" -> [fn |-> "parseReturnStatement", pc |-> 0]
                 [] t = "FOR" -> [fn |-> "parseForStatement", pc |-> 0, Variable |-> "",
                                  Iterable |-> NIL]
                 [] t = "WHILE" -> [fn |-> "parseWhileStatement", pc |-> 0, Condition |-> NIL]
                 [] OTHER -> [fn |-> "parseExpressionStatement", pc |-> 0],
               m.ret)

\* the optional ; or newline that ends a statement, next being nextToken(p)
skipTerminator(p, next) ==
    IF peekTokenIs(p, ";") \/ peekTokenIs(p, "NEWLINE") THEN next ELSE p

parseLetStatement(m, f, a) ==
    IF f.pc = 0
    THEN LET e1 == expectPeek(m.p, a[1], "IDENT")
         IN  IF ~e1.ok THEN Return(WithParser(m, e1.p), TypedNil("*ast.LetStatement"))
             ELSE LET e2 == expectPeek(a[1], a[2], "=")
                  IN  IF ~e2.ok
                      THEN Return(WithParser(m, e2.p), TypedNil("*ast.LetStatement"))
                      ELSE Call(WithParser(m, a[3]),
                                [f EXCEPT !.pc = 1, !.Name = a[1].curToken.Literal],
                                parseExpressionFrame(LOWEST))
    ELSE Return(WithParser(m, skipTerminator(m.p, a[1])),
                [kind |-> "LetStatement", Name |-> f.Name, Value |-> m.ret])

parseReturnStatement(m, f, a) ==
    IF f.pc = 0
    THEN IF a[1].curToken.Type \notin {"NEWLINE", ";", "EOF", "}"}
         THEN Call(WithParser(m, a[1]), At(f, 1), parseExpressionFrame(LOWEST))
         ELSE Return(WithParser(m, skipTerminator(a[1], a[2])),
                     [kind |-> "ReturnStatement", ReturnValue |-> NIL])
    ELSE Return(WithParser(m, skipTerminator(m.p, a[1])),
                [kind |-> "ReturnStatement", ReturnValue |-> m.ret])

parseForStatement(m, f, a) ==
    CASE f.pc = 0 ->
             LET e1 == expectPeek(m.p, a[1], "IDENT")
             IN  IF ~e1.ok THEN Return(WithParser(m, e1.p), TypedNil("*ast.ForStatement"))
                 ELSE LET e2 == expectPeek(a[1], a[2], "IN")
                      IN  IF ~e2.ok
                          THEN Return(WithParser(m, e2.p), TypedNil("*ast.ForStatement"))
                          ELSE Call(WithParser(m, a[3]),
                                    [f EXCEPT !.pc = 1, !.Variable = a[1].curToken.Literal],
                                    parseExpressionFrame(LOWEST))
      [] f.pc = 1 ->
             LET e == expectPeek(m.p, a[1], "{")
             IN  IF ~e.ok THEN Return(WithParser(m, e.p), TypedNil("*ast.ForStatement"))
                 ELSE Call(WithParser(m, e.p), [f EXCEPT !.pc = 2, !.Iterable = m.ret],
                           parseBlockStatementFrame)
      [] f.pc = 2 ->
             Return(m, [kind |-> "ForStatement", Variable |-> f.Variable,
                        Iterable |-> f.Iterable, Body |-> m.ret])

parseWhileStatement(m, f, a) ==
    CASE f.pc = 0 -> Call(WithParser(m, a[1]), At(f, 1), parseExpressionFrame(LOWEST))
      [] f.pc = 1 ->
             LET e == expectPeek(m.p, a[1], "{")
             IN  IF ~e.ok THEN Return(WithParser(m, e.p), TypedNil("*ast.WhileStatement"))
                 ELSE Call(WithParser(m, e.p), [f EXCEPT !.pc = 2, !.Condition = m.ret],
                           parseBlockStatementFrame)
      [] f.pc = 2 ->
             Return(m, [kind |-> "WhileStatement", Condition |-> f.Condition, Body |-> m.ret])

parseExpressionStatement(m, f, a) ==
    IF f.pc = 0 THEN Call(m, At(f, 1), parseExpressionFrame(LOWEST))
    ELSE Return(WithParser(m, skipTerminator(m.p, a[1])),
                [kind |-> "ExpressionStatement", Expression |-> m.ret])

\* parseExpressionList: at 1 an element has come back; a nil list is the empty list
parseExpressionList(m, f, a) ==
    IF f.pc = 0
    THEN IF peekTokenIs(m.p, f.end) THEN Return(WithParser(m, a[1]), <<>>)
         ELSE Call(WithParser(m, a[1]), At(f, 1), parseExpressionFrame(LOWEST))
    ELSE IF peekTokenIs(m.p, ",")
    THEN Call(WithParser(m, a[2]), [f EXCEPT !.list = Append(@, m.ret)],
              parseExpressionFrame(LOWEST))
    ELSE LET e == expectPeek(m.p, a[1], f.end)
         IN  Return(WithParser(m, e.p), IF e.ok THEN Append(f.list, m.ret) ELSE <<>>)

parseArrayLiteral(m, f) ==
    IF f.pc = 0
    THEN Call(m, At(f, 1), [fn |-> "parseExpressionList", pc |-> 0, end |-> "]", list |-> <<>>])
    ELSE Return(m, [kind |-> "ArrayLiteral", Elements |-> m.ret])

\* what parseMapLiteral does once its loop is over, next being nextToken(p)
parseMapLiteralEnd(m, f, p, next) ==
    LET e == expectPeek(p, next, "}")
    IN  Return(WithParser(m, e.p),
               IF e.ok THEN [kind |-> "MapLiteral", Pairs |-> f.pairs] ELSE NIL)

\* parseMapLiteral: at 1 the loop is at its head, at 2 a key has come back, at 3 its
\* value, at 4 the newlines before a key and at 5 the commas and newlines after a
\* value are skipped one by one; Pairs keeps the pairs in the order they were written
parseMapLiteral(m, f, a) ==
    CASE f.pc \in {0, 1} ->
             IF peekTokenIs(m.p, "}") THEN parseMapLiteralEnd(m, f, m.p, a[1])
             ELSE Resume(WithParser(m, a[1]), At(f, 4), m.ret)
      [] f.pc = 4 ->
             IF curTokenIs(m.p, "NEWLINE") THEN WithParser(m, a[1])
             ELSE IF curTokenIs(m.p, "}") THEN parseMapLiteralEnd(m, f, m.p, a[1])
             ELSE Call(m, At(f, 2), parseExpressionFrame(LOWEST))
      [] f.pc = 2 ->
             LET e == expectPeek(m.p, a[1], ":")
             IN  IF ~e.ok THEN Return(WithParser(m, e.p), NIL)
                 ELSE Call(WithParser(m, a[2]), [f EXCEPT !.pc = 3, !.key = m.ret],
                           parseExpressionFrame(LOWEST))
      [] f.pc = 3 ->
             Resume(m, [f EXCEPT !.pc = 5,
                                 !.pairs = Append(@, [Key |-> f.key, Value |-> m.ret])],
                    m.ret)
      [] f.pc = 5 ->
             IF peekTokenIs(m.p, ",") \/ peekTokenIs(m.p, "NEWLINE") THEN WithParser(m, a[1])
             ELSE Resume(m, At(f, 1), m.ret)

\* parseFunctionLiteral: at 1 the parameters have come back, at 2 the body
parseFunctionLiteral(m, f, a) ==
    CASE f.pc = 0 ->
             LET named == peekTokenIs(m.p, "IDENT")
                 e == IF named THEN expectPeek(a[1], a[2], "(") ELSE expectPeek(m.p, a[1], "(")
             IN  IF ~e.ok THEN Return(WithParser(m, e.p), NIL)
                 ELSE Call(WithParser(m, e.p),
                           [f EXCEPT !.pc = 1,
                                     !.Name = IF named THEN a[1].curToken.Literal ELSE ""],
                           [fn |-> "parseFunctionParameters", pc |-> 0, params |-> <<>>,
                            name |-> ""])
      [] f.pc = 1 ->
             LET e == expectPeek(m.p, a[1], "{")
             IN  IF ~e.ok THEN Return(WithParser(m, e.p), NIL)
                 ELSE Call(WithParser(m, e.p), [f EXCEPT !.pc = 2, !.Parameters = m.ret],
                           parseBlockStatementFrame)
      [] f.pc = 2 ->
             Return(m, [kind |-> "FunctionLiteral", Name |-> f.Name,
                        Parameters |-> f.Parameters, Body |-> m.ret])

\* one parameter of parseFunctionParameters: p has its name as curToken, next and
\* after are the parsers one and two calls of nextToken on
parseFunctionParameter(m, f, params, p, next, after) ==
    IF peekTokenIs(p, "=")
    THEN Call(WithParser(m, after),
              [f EXCEPT !.pc = 2, !.params = params, !.name = p.curToken.Literal],
              parseExpressionFrame(LOWEST))
    ELSE Resume(WithParser(m, p),
                [f EXCEPT !.pc = 1,
                          !.params = Append(params, [Name |-> p.curToken.Literal,
                                                     Default |-> NIL])],
                m.ret)

\* parseFunctionParameters once a parameter is complete in params
parseFunctionParametersNext(m, f, a, params) ==
    IF peekTokenIs(m.p, ",") THEN parseFunctionParameter(m, f, params, a[2], a[3], a[4])
    ELSE LET e == expectPeek(m.p, a[1], ")")
         IN  Return(WithParser(m, e.p), IF e.ok THEN params ELSE <<>>)

\* parseFunctionParameters: at 1 the last parameter is complete, at 2 its default
\* has come back; a nil list is the empty list
parseFunctionParameters(m, f, a) ==
    CASE f.pc = 0 ->
             IF peekTokenIs(m.p, ")") THEN Return(WithParser(m, a[1]), <<>>)
             ELSE parseFunctionParameter(m, f, <<>>, a[1], a[2], a[3])
      [] f.pc = 1 -> parseFunctionParametersNext(m, f, a, f.params)
      [] f.pc = 2 ->
             parseFunctionParametersNext(m, f, a,
                 Append(f.params, [Name |-> f.name, Default |-> m.ret]))

parseCallExpression(m, f) ==
    IF f.pc = 0
    THEN Call(m, At(f, 1), [fn |-> "parseCallArguments", pc |-> 0, args |-> <<>>, name |-> ""])
    ELSE Return(m, [kind |-> "CallExpression", Function |-> f.function, Arguments |-> m.ret])

\* one argument of parseCallArguments: p has its first token as curToken, after is
\* the parser two calls of nextToken on
parseCallArgument(m, f, p, after) ==
    IF curTokenIs(p, "IDENT") /\ peekTokenIs(p, "=")
    THEN Call(WithParser(m, after), [f EXCEPT !.pc = 1, !.name = p.curToken.Literal],
              parseExpressionFrame(LOWEST))
    ELSE Call(WithParser(m, p), [f EXCEPT !.pc = 1, !.name = ""], parseExpressionFrame(LOWEST))

\* parseCallArguments: at 1 the value of an argument has come back; a nil list is
\* the empty list
parseCallArguments(m, f, a) ==
    IF f.pc = 0
    THEN IF peekTokenIs(m.p, ")") THEN Return(WithParser(m, a[1]), <<>>)
         ELSE parseCallArgument(m, f, a[1], a[3])
    ELSE LET args == Append(f.args, [Name |-> f.name, Value |-> m.ret])
         IN  IF peekTokenIs(m.p, ",")
             THEN parseCallArgument(m, [f EXCEPT !.args = args], a[2], a[4])
             ELSE LET e == expectPeek(m.p, a[1], ")")
                  IN  Return(WithParser(m, e.p), IF e.ok THEN args ELSE <<>>)

\* the parser p after one, two, ... n calls of nextToken
RECURSIVE ahead(_, _)
ahead(p, n) ==
    IF n = 0 THEN <<>>
    ELSE LET rest(p1) == <<p1>> \o ahead(p1, n - 1) IN rest(nextToken(p))

\* the routine of the frame f run to its next call or return, a being ahead of n.p
parseRoutine(n, f, a) ==
             CASE f.fn = "ParseProgram" -> ParseProgram(n, f, a)
               [] f.fn = "parseStatement" -> parseStatement(n, f)
               [] f.fn = "parseLetStatement" -> parseLetStatement(n, f, a)
               [] f.fn = "parseReturnStatement" -> parseReturnStatement(n, f, a)
               [] f.fn = "parseForStatement" -> parseForStatement(n, f, a)
               [] f.fn = "parseWhileStatement" -> parseWhileStatement(n, f, a)
               [] f.fn = "parseExpressionStatement" -> parseExpressionStatement(n, f, a)
               [] f.fn = "parseExpression" -> parseExpression(n, f, a)
               [] f.fn = "parseArrayLiteral" -> parseArrayLiteral(n, f)
               [] f.fn = "parseMapLiteral" -> parseMapLiteral(n, f, a)
               [] f.fn = "parseExpressionList" -> parseExpressionList(n, f, a)
               [] f.fn = "parsePrefixExpression" -> parsePrefixExpression(n, f, a)
               [] f.fn = "parseInfixExpression" -> parseInfixExpression(n, f, a)
               [] f.fn = "parseRangeExpression" -> parseRangeExpression(n, f, a)
               [] f.fn = "parsePipeExpression" -> parsePipeExpression(n, f, a)
               [] f.fn = "parseAssignExpression" -> parseAssignExpression(n, f, a)
               [] f.fn = "parseGroupedExpression" -> parseGroupedExpression(n, f, a)
               [] f.fn = "parseIfExpression" -> parseIfExpression(n, f, a)
               [] f.fn = "parseBlockStatement" -> parseBlockStatement(n, f, a)
               [] f.fn = "parseFunctionLiteral" -> parseFunctionLiteral(n, f, a)
               [] f.fn = "parseFunctionParameters" -> parseFunctionParameters(n, f, a)
               [] f.fn = "parseCallExpression" -> parseCallExpression(n, f)
               [] f.fn = "parseCallArguments" -> parseCallArguments(n, f, a)
               [] f.fn = "parseIndexExpression" -> parseIndexExpression(n, f, a)

\* one step of the parser: the running routine runs to its next call or return
parseStep(m) ==
    IF m.k = <<>> \/ m.steps >= ParseFuel THEN m
    ELSE parseRoutine([m EXCEPT !.steps = @ + 1], Head(m.k), ahead(m.p, 4))

\* up to n steps, each taken once the one before is done
RECURSIVE parseSteps(_, _)
parseSteps(m, n) == IF n = 0 \/ m.k = <<>> THEN m ELSE parseSteps(parseStep(m), n - 1)

\* up to n runs of 8 steps
RECURSIVE parseBlocks(_, _)
parseBlocks(m, n) == IF n = 0 \/ m.k = <<>> THEN m ELSE parseBlocks(parseSteps(m, 8), n - 1)

\* the parser run until ParseProgram has returned or the fuel is spent
RECURSIVE parseRun(_)
parseRun(m) ==
    IF m.k = <<>> \/ m.steps >= ParseFuel THEN m ELSE parseRun(parseBlocks(m, 8))

\* lexer.New, parser.New and ParseProgram on a source text: the program, p.Errors()
\* and whether the parser came to its end
Parse(code) ==
    LET parsed(m) == [program |-> m.ret, errors |-> m.p.errors, done |-> m.k = <<>>]
    IN  parsed(parseRun([p |-> NewParser(NewLexer(code)),
                         k |-> <<[fn |-> "ParseProgram", pc |-> 0, statements |-> <<>>]>>,
                         ret |-> NIL, steps |-> 0]))

(***************************************************************************)
(* Objects.  An object.Object is a record tagged with its Type(); the nil  *)
(* Object is NilObject.  Objects that Go compares by their address carry   *)
(* an id; an Array's Elements and a Map's Pairs live in the heap.          *)
(***************************************************************************)
NilObject == [type |-> "nil"]

NULL == [type |-> "NULL"]

TrueObject == [type |-> "BOOLEAN", Value |-> TRUE]

FalseObject == [type |-> "BOOLEAN", Value |-> FALSE]

IntegerObject(v) == [type |-> "INTEGER", Value |-> v]

FloatObject(v) == [type |-> "FLOAT", Value |-> v]

StringObject(s) == [type |-> "STRING", Value |-> s]

ReturnValue(v) == [type |-> "RETURN_VALUE", Value |-> v]

BuiltinObject(name) == [type |-> "BUILTIN", id |-> name, Name |-> name]

\* a run of the evaluator that ends in a Go panic, or in an operation of a
\* library that is not modelled, yields this instead of an Object
Panic(msg) == [type |-> "panic", Message |-> msg]

nativeBoolToBooleanObject(input) == IF input THEN TrueObject ELSE FalseObject

newError(msg) == [type |-> "ERROR", Message |-> msg]

isError(obj) == obj # NilObject /\ obj.type = "ERROR"

\* the address comparison left == right of two Objects
SameObject(left, right) ==
    IF left.type \in {"nil", "NULL", "BOOLEAN"} THEN left = right
    ELSE /\ left.type = right.type
         /\ left.type \in {"ARRAY", "MAP", "RANGE", "REGEX", "FUNCTION", "BUILTIN"}
         /\ left.id = right.id

Hashable(obj) == obj.type \in {"INTEGER", "BOOLEAN", "STRING"}

HashKey(obj) == [Type |-> obj.type, Value |-> obj.Value]

(***************************************************************************)
(* The heap.  envs holds the Environments (store: name -> Object, outer:   *)
(* the enclosing Environment or 0), backings the arrays that slices share, *)
(* arrays the Elements slice of each Array, maps the Pairs of each Map in  *)
(* the order the keys were first inserted, ids the count of ids given out. *)
(***************************************************************************)
EmptyHeap == [envs |-> <<>>, backings |-> <<>>, arrays |-> <<>>, maps |-> <<>>, ids |-> 0]

NewEnclosedEnvironment(h, outer) ==
    [h |-> [h EXCEPT !.envs = Append(@, [store |-> <<>>, outer |-> outer])],
     env |-> Len(h.envs) + 1]

NewEnvironment(h) == NewEnclosedEnvironment(h, 0)

RECURSIVE EnvGet(_, _, _)
EnvGet(h, env, name) ==
    IF env = 0 THEN [ok |-> FALSE, val |-> NilObject]
    ELSE IF name \in DOMAIN h.envs[env].store
    THEN [ok |-> TRUE, val |-> h.envs[env].store[name]]
    ELSE EnvGet(h, h.envs[env].outer, name)

EnvSet(h, env, name, val) ==
    [h EXCEPT !.envs[env].store =
        [n \in DOMAIN @ \cup {name} |-> IF n = name THEN val ELSE @[n]]]

RECURSIVE EnvUpdate(_, _, _, _)
EnvUpdate(h, env, name, val) ==
    IF env = 0 THEN [ok |-> FALSE, h |-> h]
    ELSE IF name \in DOMAIN h.envs[env].store
    THEN [ok |-> TRUE, h |-> EnvSet(h, env, name, val)]
    ELSE EnvUpdate(h, h.envs[env].outer, name, val)

\* a Go slice: the backing array b (0 for the nil slice), the offset into it, the
\* length and the capacity
NilSlice == [b |-> 0, off |-> 0, len |-> 0, cap |-> 0]

SliceAt(h, s, i) == h.backings[s.b][s.off + i + 1]

SliceElements(h, s) == [i \in 1..s.len |-> h.backings[s.b][s.off + i]]

\* make([]T, n) filled with the elements of seq
MakeSlice(h, seq) ==
    IF Len(seq) = 0 THEN [h |-> h, s |-> [b |-> 0, off |-> 0, len |-> 0, cap |-> 0]]
    ELSE [h |-> [h EXCEPT !.backings = Append(@, seq)],
          s |-> [b |-> Len(h.backings) + 1, off |-> 0, len |-> Len(seq), cap |-> Len(seq)]]

\* append(s, x): in place while the capacity lasts, else into a new backing array
\* of twice the capacity
SliceAppend(h, s, x) ==
    IF s.len < s.cap
    THEN [h |-> [h EXCEPT !.backings[s.b][s.off + s.len + 1] = x],
          s |-> [s EXCEPT !.len = @ + 1]]
    ELSE LET newcap == IF s.cap = 0 THEN 1 ELSE 2 * s.cap
             old == SliceElements(h, s)
         IN  [h |-> [h EXCEPT !.backings =
                        Append(@, [i \in 1..newcap |->
                                      IF i <= s.len THEN old[i]
                                      ELSE IF i = s.len + 1 THEN x ELSE NilObject])],
              s |-> [b |-> Len(h.backings) + 1, off |-> 0, len |-> s.len + 1, cap |-> newcap]]

\* an index-assignment that stores nothing: against this variant C11 fails
SliceSetDropped(h, s, i, x) == h

SliceSet(h, s, i, x) == [h EXCEPT !.backings[s.b][s.off + i + 1] = x]

\* &object.Array{Elements: s}
NewArray(h, s) ==
    [h |-> [h EXCEPT !.arrays = Append(@, s)],
     obj |-> [type |-> "ARRAY", id |-> Len(h.arrays) + 1]]

Elements(h, arr) == SliceElements(h, h.arrays[arr.id])

\* &object.Map{Pairs: pairs}, pairs a sequence of [hash, Key, Value]
NewMap(h, pairs) ==
    [h |-> [h EXCEPT !.maps = Append(@, pairs)],
     obj |-> [type |-> "MAP", id |-> Len(h.maps) + 1]]

\* where the key hashed to k stands in pairs, 0 if it is absent
PairIndex(pairs, k) ==
    IF \E i \in 1..Len(pairs) : pairs[i].hash = k
    THEN CHOOSE i \in 1..Len(pairs) : pairs[i].hash = k
    ELSE 0

\* pairs[hashed] = object.MapPair{Key: key, Value: value}
PairsSet(pairs, key, val) ==
    LET i == PairIndex(pairs, HashKey(key))
        pair == [hash |-> HashKey(key), Key |-> key, Value |-> val]
    IN  IF i = 0 THEN Append(pairs, pair) ELSE [pairs EXCEPT ![i] = pair]

NewId(h) == [h |-> [h EXCEPT !.ids = @ + 1], id |-> h.ids + 1]

(***************************************************************************)
(* Text of values.  Strings hold printable ASCII characters (all but the   *)
(* backquote), so a byte of a string is one of its characters.             *)
(***************************************************************************)
AsciiTable ==
    " !\"#$%&'()*+,-./0123456789:;<=>?@ABCDEFGHIJKLMNOPQRSTUVWXYZ[\\]^_abcdefghijklmnopqrstuvwxyz{|}~"

\* the rank of a character among the characters; 0 for one outside the table
Ord(ch) ==
    IF \E i \in 1..Len(AsciiTable) : SubSeq(AsciiTable, i, i) = ch
    THEN CHOOSE i \in 1..Len(AsciiTable) : SubSeq(AsciiTable, i, i) = ch
    ELSE 0

\* a < b for Go strings
RECURSIVE StringLess(_, _)
StringLess(a, b) ==
    IF b = "" THEN FALSE
    ELSE IF a = "" THEN TRUE
    ELSE IF SubSeq(a, 1, 1) # SubSeq(b, 1, 1) THEN Ord(SubSeq(a, 1, 1)) < Ord(SubSeq(b, 1, 1))
    ELSE StringLess(SubSeq(a, 2, Len(a)), SubSeq(b, 2, Len(b)))

\* the decimal digits of a read as an unsigned number
RECURSIVE UDigits(_)
UDigits(a) ==
    IF I64ULess(a, I64OfNat(10)) THEN DigitChars[a[1] + 1]
    ELSE LET digits(d) == UDigits(d.q) \o DigitChars[d.r[1] + 1]
         IN  digits(I64UDivMod(a, I64OfNat(10)))

\* %d of an int64
FormatInt(a) == (IF I64IsNeg(a) THEN "-" ELSE "") \o UDigits(I64Abs(a))

(***************************************************************************)
(* float64.  A Float is kept as the exact fraction num / den in lowest     *)
(* terms with den > 0; only the values float64 holds exactly (den a power  *)
(* of two, small magnitude) are modelled.                                  *)
(***************************************************************************)
RECURSIVE GCD(_, _)
GCD(a, b) == IF b = 0 THEN a ELSE GCD(b, a % b)

FloatOf(num, den) ==
    LET n == IF den < 0 THEN -num ELSE num
        d == IF den < 0 THEN -den ELSE den
        g == GCD(IF n < 0 THEN -n ELSE n, d)
    IN  [num |-> n \div g, den |-> d \div g]

MaxFloatBits == 20

FloatIsExact(v) ==
    /\ \E k \in 0..MaxFloatBits : v.den = 2^k
    /\ v.num < 2^MaxFloatBits /\ -v.num < 2^MaxFloatBits

\* the fraction digits of r / den, den a power of two, r < den
RECURSIVE FractionDigits(_, _)
FractionDigits(r, den) ==
    IF r = 0 THEN "" ELSE DigitChars[((10 * r) \div den) + 1] \o FractionDigits((10 * r) % den, den)

FormatFloat(v) ==
    LET n == IF v.num < 0 THEN -v.num ELSE v.num
    IN  (IF v.num < 0 THEN "-" ELSE "") \o Itoa(n \div v.den)
        \o (IF n % v.den = 0 THEN "" ELSE "." \o FractionDigits(n % v.den, v.den))

(***************************************************************************)
(* Inspect() of an Object, its display form.                               *)
(***************************************************************************)
RECURSIVE Inspect(_, _)
RECURSIVE InspectList(_, _, _)
InspectList(h, seq, i) ==
    IF i > Len(seq) THEN ""
    ELSE (IF i > 1 THEN ", " ELSE "") \o Inspect(h, seq[i]) \o InspectList(h, seq, i + 1)

RECURSIVE InspectPairs(_, _, _)
InspectPairs(h, pairs, i) ==
    IF i > Len(pairs) THEN ""
    ELSE (IF i > 1 THEN ", " ELSE "") \o Inspect(h, pairs[i].Key) \o ": "
         \o Inspect(h, pairs[i].Value) \o InspectPairs(h, pairs, i + 1)

Inspect(h, obj) ==
    CASE obj.type = "INTEGER" -> FormatInt(obj.Value)
      [] obj.type = "FLOAT" -> FormatFloat(obj.Value)
      [] obj.type = "STRING" -> obj.Value
      [] obj.type = "BOOLEAN" -> IF obj.Value THEN "true" ELSE "false"
      [] obj.type = "NULL" -> "null"
      [] obj.type = "ARRAY" -> "[" \o InspectList(h, Elements(h, obj), 1) \o "]"
      [] obj.type = "MAP" -> "{" \o InspectPairs(h, h.maps[obj.id], 1) \o "}"
      [] obj.type = "RANGE" -> FormatInt(obj.Start) \o ".." \o FormatInt(obj.End)
      [] obj.type = "REGEX" -> "/" \o obj.Pattern \o "/"
      [] obj.type = "FUNCTION" -> "fn(...) {...}"
      [] obj.type = "BUILTIN" -> "builtin function"
      [] obj.type = "RETURN_VALUE" -> Inspect(h, obj.Value)
      [] obj.type = "ERROR" -> "ERROR: " \o obj.Message

(***************************************************************************)
(* The evaluator's routines that call no evaluation (package evaluator).   *)
(* One that would dereference a nil Object yields Panic.                   *)
(***************************************************************************)
NilDereference == Panic("invalid memory address or nil pointer dereference")

isTruthy(obj) ==
    CASE obj.type = "NULL" -> FALSE
      [] obj.type = "BOOLEAN" -> obj.Value
      [] obj.type = "INTEGER" -> obj.Value # I64Zero
      [] obj.type = "STRING" -> obj.Value # ""
      [] OTHER -> TRUE

\* isTruthy reads the length of an Array from the heap
isTruthyIn(h, obj) == IF obj.type = "ARRAY" THEN h.arrays[obj.id].len > 0 ELSE isTruthy(obj)

evalBangOperatorExpression(h, right) == IF isTruthyIn(h, right) THEN FalseObject ELSE TrueObject

evalMinusPrefixOperatorExpression(right) ==
    CASE right.type = "INTEGER" -> IntegerObject(I64Neg(right.Value))
      [] right.type = "FLOAT" -> FloatObject(FloatOf(-right.Value.num, right.Value.den))
      [] right.type = "nil" -> NilDereference
      [] OTHER -> newError("unknown operator: -" \o right.type)

evalPrefixExpression(h, operator, right) ==
    CASE operator \in {"!", "not"} -> evalBangOperatorExpression(h, right)
      [] operator = "-" -> evalMinusPrefixOperatorExpression(right)
      [] OTHER -> IF right = NilObject THEN NilDereference
                  ELSE newError("unknown operator: " \o operator \o right.type)

unknownOperator(operator, left, right) ==
    newError("unknown operator: " \o left.type \o " " \o operator \o " " \o right.type)

\* a Go integer division by zero
DivideError == Panic("runtime error: integer divide by zero")

\* evalIntegerInfixExpression without its tests of a zero divisor: Go's / and % panic
evalIntegerInfixExpressionUnchecked(operator, left, right) ==
    LET leftVal == left.Value
        rightVal == right.Value
    IN  CASE operator = "+" -> IntegerObject(I64Add(leftVal, rightVal))
          [] operator = "-" -> IntegerObject(I64Sub(leftVal, rightVal))
          [] operator = "*" -> IntegerObject(I64Mul(leftVal, rightVal))
          [] operator = "/" ->
                 IF rightVal = I64Zero THEN DivideError
                 ELSE IntegerObject(I64Quo(leftVal, rightVal))
          [] operator = "%" ->
                 IF rightVal = I64Zero THEN DivideError
                 ELSE IntegerObject(I64Rem(leftVal, rightVal))
          [] operator = "<" -> nativeBoolToBooleanObject(I64Less(leftVal, rightVal))
          [] operator = ">" -> nativeBoolToBooleanObject(I64Less(rightVal, leftVal))
          [] operator = "<=" -> nativeBoolToBooleanObject(~I64Less(rightVal, leftVal))
          [] operator = ">=" -> nativeBoolToBooleanObject(~I64Less(leftVal, rightVal))
          [] operator = "==" -> nativeBoolToBooleanObject(leftVal = rightVal)
          [] operator = "!=" -> nativeBoolToBooleanObject(leftVal # rightVal)
          [] OTHER -> unknownOperator(operator, left, right)

evalIntegerInfixExpression(operator, left, right) ==
    LET leftVal == left.Value
        rightVal == right.Value
    IN  CASE operator = "+" -> IntegerObject(I64Add(leftVal, rightVal))
          [] operator = "-" -> IntegerObject(I64Sub(leftVal, rightVal))
          [] operator = "*" -> IntegerObject(I64Mul(leftVal, rightVal))
          [] operator = "/" ->
                 IF rightVal = I64Zero THEN newError("division by zero")
                 ELSE IntegerObject(I64Quo(leftVal, rightVal))
          [] operator = "%" ->
                 IF rightVal = I64Zero THEN newError("division by zero")
                 ELSE IntegerObject(I64Rem(leftVal, rightVal))
          [] operator = "<" -> nativeBoolToBooleanObject(I64Less(leftVal, rightVal))
          [] operator = ">" -> nativeBoolToBooleanObject(I64Less(rightVal, leftVal))
          [] operator = "<=" -> nativeBoolToBooleanObject(~I64Less(rightVal, leftVal))
          [] operator = ">=" -> nativeBoolToBooleanObject(~I64Less(leftVal, rightVal))
          [] operator = "==" -> nativeBoolToBooleanObject(leftVal = rightVal)
          [] operator = "!=" -> nativeBoolToBooleanObject(leftVal # rightVal)
          [] OTHER -> unknownOperator(operator, left, right)

\* the float64 an operand of evalFloatInfixExpression is read as: the zero value
\* when it is neither a Float nor an Integer
float64Of(obj) ==
    CASE obj.type = "FLOAT" -> obj.Value
      [] obj.type = "INTEGER" -> [num |-> I64ToInt(obj.Value), den |-> 1]
      [] OTHER -> [num |-> 0, den |-> 1]

FloatResult(v) == IF FloatIsExact(v) THEN FloatObject(v) ELSE Panic("float64 value not modelled")

evalFloatInfixExpression(operator, left, right) ==
    LET leftVal == float64Of(left)
        rightVal == float64Of(right)
        less(a, b) == a.num * b.den < b.num * a.den
    IN  IF \E o \in {left, right} :
               o.type = "INTEGER" /\ ~I64InRange(o.Value, -(2^MaxFloatBits), 2^MaxFloatBits)
        THEN Panic("float64 value not modelled")
        ELSE CASE operator = "+" ->
                      FloatResult(FloatOf(leftVal.num * rightVal.den + rightVal.num * leftVal.den,
                                          leftVal.den * rightVal.den))
               [] operator = "-" ->
                      FloatResult(FloatOf(leftVal.num * rightVal.den - rightVal.num * leftVal.den,
                                          leftVal.den * rightVal.den))
               [] operator = "*" ->
                      FloatResult(FloatOf(leftVal.num * rightVal.num, leftVal.den * rightVal.den))
               [] operator = "/" ->
                      IF rightVal.num = 0 THEN newError("division by zero")
                      ELSE FloatResult(FloatOf(leftVal.num * rightVal.den,
                                               leftVal.den * rightVal.num))
               [] operator = "<" -> nativeBoolToBooleanObject(less(leftVal, rightVal))
               [] operator = ">" -> nativeBoolToBooleanObject(less(rightVal, leftVal))
               [] operator = "<=" -> nativeBoolToBooleanObject(~less(rightVal, leftVal))
               [] operator = ">=" -> nativeBoolToBooleanObject(~less(leftVal, rightVal))
               [] operator = "==" -> nativeBoolToBooleanObject(leftVal = rightVal)
               [] operator = "!=" -> nativeBoolToBooleanObject(leftVal # rightVal)
               [] OTHER -> unknownOperator(operator, left, right)

evalStringInfixExpression(operator, left, right) ==
    LET leftVal == left.Value
        rightVal == right.Value
    IN  CASE operator = "++" -> StringObject(leftVal \o rightVal)
          [] operator = "==" -> nativeBoolToBooleanObject(leftVal = rightVal)
          [] operator = "!=" -> nativeBoolToBooleanObject(leftVal # rightVal)
          [] operator = "<" -> nativeBoolToBooleanObject(StringLess(leftVal, rightVal))
          [] operator = ">" -> nativeBoolToBooleanObject(StringLess(rightVal, leftVal))
          [] OTHER -> unknownOperator(operator, left, right)

\* the patterns whose matching is modelled: those that match themselves
PlainPattern(pattern) ==
    \A i \in 1..Len(pattern) :
        LET ch == SubSeq(pattern, i, i) IN isLetter(ch) \/ isDigit(ch) \/ ch = " "

\* re.MatchString(str) for a plain pattern: the pattern occurs in str
MatchString(pattern, str) ==
    \E i \in 0..(Len(str) - Len(pattern)) : SubSeq(str, i + 1, i + Len(pattern)) = pattern

evalRegexMatchExpression(operator, left, right) ==
    IF ~PlainPattern(right.Pattern) THEN Panic("regexp not modelled")
    ELSE LET matched == MatchString(right.Pattern, left.Value)
         IN  CASE operator = "~" -> nativeBoolToBooleanObject(matched)
               [] operator = "!~" -> nativeBoolToBooleanObject(~matched)
               [] OTHER -> unknownOperator(operator, left, right)

evalInfixExpression(operator, left, right) ==
    CASE left = NilObject \/ right = NilObject -> NilDereference
      [] left.type = "INTEGER" /\ right.type = "INTEGER" ->
             evalIntegerInfixExpression(operator, left, right)
      [] left.type = "FLOAT" \/ right.type = "FLOAT" ->
             evalFloatInfixExpression(operator, left, right)
      [] left.type = "STRING" /\ right.type = "STRING" ->
             evalStringInfixExpression(operator, left, right)
      [] left.type = "STRING" /\ right.type = "REGEX" ->
             evalRegexMatchExpression(operator, left, right)
      [] operator = "==" -> nativeBoolToBooleanObject(SameObject(left, right))
      [] operator = "!=" -> nativeBoolToBooleanObject(~SameObject(left, right))
      [] OTHER -> unknownOperator(operator, left, right)

\* the names of the builtins table
builtinNames ==
    {"print", "type", "len", "upper", "lower", "trim", "ltrim", "rtrim", "split", "join",
     "replace", "replace_all", "contains", "starts_with", "ends_with", "substr", "repeat",
     "reverse", "lines", "chars", "match", "match_all", "regex", "push", "pop", "shift",
     "unshift", "slice", "sort", "unique", "flatten", "map", "filter", "reduce", "keys",
     "values", "int", "float", "str", "find", "range"}

evalIdentifier(h, node, env) ==
    LET r == EnvGet(h, env, node.Value)
    IN  IF r.ok THEN r.val
        ELSE IF node.Value \in builtinNames THEN BuiltinObject(node.Value)
        ELSE newError("undefined variable: " \o node.Value)

\* evalArrayIndexExpression without the count from the end: a negative index is
\* out of range
evalArrayIndexExpressionFromStart(h, array, index) ==
    LET arr == h.arrays[array.id]
        max == I64Sub(I64OfNat(arr.len), I64One)
        idx == index.Value
    IN  IF I64IsNeg(idx) \/ I64Less(max, idx) THEN NULL ELSE SliceAt(h, arr, I64ToInt(idx))

evalArrayIndexExpression(h, array, index) ==
    LET arr == h.arrays[array.id]
        max == I64Sub(I64OfNat(arr.len), I64One)
        idx == IF I64IsNeg(index.Value) THEN I64Add(I64OfNat(arr.len), index.Value)
               ELSE index.Value
    IN  IF I64IsNeg(idx) \/ I64Less(max, idx) THEN NULL ELSE SliceAt(h, arr, I64ToInt(idx))

evalStringIndexExpression(str, index) ==
    LET max == I64Sub(I64OfNat(Len(str.Value)), I64One)
        idx == IF I64IsNeg(index.Value) THEN I64Add(I64OfNat(Len(str.Value)), index.Value)
               ELSE index.Value
    IN  IF I64IsNeg(idx) \/ I64Less(max, idx) THEN NULL
        ELSE StringObject(ByteAt(str.Value, I64ToInt(idx)))

evalMapIndexExpression(h, hash, index) ==
    IF index = NilObject THEN NilDereference
    ELSE IF ~Hashable(index) THEN newError("unusable as map key: " \o index.type)
    ELSE LET pairs == h.maps[hash.id]
             i == PairIndex(pairs, HashKey(index))
         IN  IF i = 0 THEN NULL ELSE pairs[i].Value

evalIndexExpression(h, left, index) ==
    CASE left = NilObject \/ index = NilObject -> NilDereference
      [] left.type = "ARRAY" /\ index.type = "INTEGER" -> evalArrayIndexExpression(h, left, index)
      [] left.type = "STRING" /\ index.type = "INTEGER" -> evalStringIndexExpression(left, index)
      [] left.type = "MAP" -> evalMapIndexExpression(h, left, index)
      [] OTHER -> newError("index operator not supported: " \o left.type
                           \o "[" \o index.type \o "]")

unwrapReturnValue(obj) == IF obj.type = "RETURN_VALUE" THEN obj.Value ELSE obj

(***************************************************************************)
(* The evaluator's routines that call Eval run on an explicit call stack,  *)
(* like the parser's.  A machine m holds the stack k, the value ret last   *)
(* returned, the heap h, the lines out printed so far, the count of steps, *)
(* the panic that ended the run if one did, and order, the order in which  *)
(* this run of the Go runtime ranges over a map (1: as inserted, -1: the   *)
(* reverse).  Two more fields record the history of the run and are read   *)
(* by no routine: app, the application of a user function that is running  *)
(* (0 outside every application), and trace, the list of the events so far *)
(* (see Log).                                                              *)
(***************************************************************************)
EvalFuel == 512

\* the event ev is added to the history of the run:
\*   "stmt"     statement index of the statement list id is about to be evaluated
\*   "result"   that statement has come back with val
\*   "program"  evalProgram returns val for the list id, "block" evalBlockStatement
\*   "iter"     the loop id is about to evaluate its body for the index-th time
\*   "return"   a return statement has made ReturnValue(val)
\*   "apply"    the application id of a user function begins, the heap having
\*              index environments; val holds the function, args and callArgs
\*   "body"     extendFunctionEnv has returned environment index to application
\*              id; val holds its store and its outer environment
\*   "applied"  the application id returns val to its caller
Log(m, ev, id, index, val) ==
    [m EXCEPT !.trace = Append(@, [ev |-> ev, id |-> id, app |-> m.app, index |-> index,
                                   val |-> val])]

WithHeap(m, h) == [m EXCEPT !.h = h]

\* the run ends in a panic
Crash(m, msg) == [m EXCEPT !.k = <<>>, !.ret = NilObject, !.panic = msg]

\* the running routine returns what a routine without evaluation yielded
Deliver(m, v) == IF v.type = "panic" THEN Crash(m, v.Message) ELSE Return(m, v)

EvalFrame(node, env) == [fn |-> "Eval", pc |-> 0, node |-> node, env |-> env, val |-> NilObject]

\* return Eval(node, env) as the last act of the running routine
TailEval(m, node, env) == Resume(m, EvalFrame(node, env), m.ret)

\* the sequence a map is ranged over in this run
Ranged(m, seq) == IF m.order = 1 THEN seq ELSE [i \in 1..Len(seq) |-> seq[Len(seq) + 1 - i]]

\* the slice that appending the elements of seq one by one to a nil slice gives
RECURSIVE AppendAll(_, _, _, _)
AppendAll(h, s, seq, i) ==
    IF i > Len(seq) THEN [h |-> h, s |-> s]
    ELSE LET r == SliceAppend(h, s, seq[i]) IN AppendAll(r.h, r.s, seq, i + 1)

\* evalProgram: at 0 the loop is at its head, at 1 a statement has come back
evalProgram(m, f) ==
    LET result == IF f.pc = 0 THEN f.result ELSE m.ret
        i == IF f.pc = 0 THEN f.i ELSE f.i + 1
        id == IF f.pc = 0 THEN m.steps ELSE f.id
        n == IF f.pc = 0 THEN m ELSE Log(m, "result", id, f.i, m.ret)
    IN  IF f.pc = 1 /\ result.type = "RETURN_VALUE"
        THEN Return(Log(n, "program", id, f.i, result.Value), result.Value)
        ELSE IF f.pc = 1 /\ result.type = "ERROR"
        THEN Return(Log(n, "program", id, f.i, result), result)
        ELSE IF i > Len(f.node.Statements) THEN Return(Log(n, "program", id, i, result), result)
        ELSE Call(Log(n, "stmt", id, i, NilObject),
                  [f EXCEPT !.pc = 1, !.i = i, !.result = result, !.id = id],
                  EvalFrame(f.node.Statements[i], f.env))

evalProgramFrame(node, env) ==
    [fn |-> "evalProgram", pc |-> 0, node |-> node, env |-> env, i |-> 1, result |-> NilObject,
     id |-> 0]

\* evalBlockStatement stopping at a ReturnValue only: against this variant C2 fails
evalBlockStatementPastErrors(m, f) ==
    LET result == IF f.pc = 0 THEN f.result ELSE m.ret
        i == IF f.pc = 0 THEN f.i ELSE f.i + 1
        id == IF f.pc = 0 THEN m.steps ELSE f.id
        n == IF f.pc = 0 THEN m ELSE Log(m, "result", id, f.i, m.ret)
    IN  IF f.pc = 1 /\ result # NilObject /\ result.type = "RETURN_VALUE"
        THEN Return(Log(n, "block", id, f.i, result), result)
        ELSE IF i > Len(f.node.Statements) THEN Return(Log(n, "block", id, i, result), result)
        ELSE Call(Log(n, "stmt", id, i, NilObject),
                  [f EXCEPT !.pc = 1, !.i = i, !.result = result, !.id = id],
                  EvalFrame(f.node.Statements[i], f.env))

\* evalBlockStatement: at 0 the loop is at its head, at 1 a statement has come back
evalBlockStatement(m, f) ==
    LET result == IF f.pc = 0 THEN f.result ELSE m.ret
        i == IF f.pc = 0 THEN f.i ELSE f.i + 1
        id == IF f.pc = 0 THEN m.steps ELSE f.id
        n == IF f.pc = 0 THEN m ELSE Log(m, "result", id, f.i, m.ret)
    IN  IF f.pc = 1 /\ result # NilObject /\ result.type \in {"RETURN_VALUE", "ERROR"}
        THEN Return(Log(n, "block", id, f.i, result), result)
        ELSE IF i > Len(f.node.Statements) THEN Return(Log(n, "block", id, i, result), result)
        ELSE Call(Log(n, "stmt", id, i, NilObject),
                  [f EXCEPT !.pc = 1, !.i = i, !.result = result, !.id = id],
                  EvalFrame(f.node.Statements[i], f.env))

evalBlockStatementFrame(node, env) ==
    [fn |-> "evalBlockStatement", pc |-> 0, node |-> node, env |-> env, i |-> 1,
     result |-> NilObject, id |-> 0]

\* evalStringLiteral: at 0 the loop over the parts is at its head, at 1 the value of
\* an embedded expression has come back
evalStringLiteral(m, f) ==
    LET sl == f.node
    IN  IF Len(sl.Parts) = 0 THEN Return(m, StringObject(sl.Value))
        ELSE IF f.pc = 0
        THEN IF f.i > Len(sl.Parts) THEN Return(m, StringObject(f.result))
             ELSE IF sl.Parts[f.i].IsExpr
             THEN Call(m, At(f, 1), EvalFrame(sl.Parts[f.i].Expr, f.env))
             ELSE Resume(m, [f EXCEPT !.i = @ + 1, !.result = @ \o sl.Parts[f.i].Text], m.ret)
        ELSE IF isError(m.ret) THEN Return(m, m.ret)
        ELSE IF m.ret = NilObject THEN Crash(m, NilDereference.Message)
        ELSE Resume(m, [f EXCEPT !.pc = 0, !.i = @ + 1, !.result = @ \o Inspect(m.h, m.ret)],
                    m.ret)

evalStringLiteralFrame(node, env) ==
    [fn |-> "evalStringLiteral", pc |-> 0, node |-> node, env |-> env, i |-> 1, result |-> ""]

\* evalExpressions: at 0 the loop is at its head, at 1 an expression has come back;
\* it returns the list of the values, or the list of the one Error
evalExpressions(m, f) ==
    LET result == IF f.pc = 0 THEN f.result ELSE Append(f.result, m.ret)
        i == IF f.pc = 0 THEN f.i ELSE f.i + 1
    IN  IF f.pc = 1 /\ isError(m.ret) THEN Return(m, <<m.ret>>)
        ELSE IF i > Len(f.exps) THEN Return(m, result)
        ELSE Call(m, [f EXCEPT !.pc = 1, !.i = i, !.result = result],
                  EvalFrame(f.exps[i], f.env))

evalExpressionsFrame(exps, env) ==
    [fn |-> "evalExpressions", pc |-> 0, exps |-> exps, env |-> env, i |-> 1, result |-> <<>>]

\* evalCallArguments is evalExpressions over the values of the arguments
evalCallArgumentsFrame(args, env) ==
    evalExpressionsFrame([i \in 1..Len(args) |-> args[i].Value], env)

\* evalMapLiteral: at 0 the loop over the pairs is at its head, at 1 a key has come
\* back, at 2 its value
evalMapLiteral(m, f) ==
    LET pair == Ranged(m, f.node.Pairs)[f.i]
    IN  CASE f.pc = 0 ->
                 IF f.i > Len(f.node.Pairs)
                 THEN LET r == NewMap(m.h, f.pairs) IN Return(WithHeap(m, r.h), r.obj)
                 ELSE Call(m, At(f, 1), EvalFrame(pair.Key, f.env))
          [] f.pc = 1 ->
                 IF isError(m.ret) THEN Return(m, m.ret)
                 ELSE IF m.ret = NilObject THEN Crash(m, NilDereference.Message)
                 ELSE IF ~Hashable(m.ret)
                 THEN Return(m, newError("unusable as map key: " \o m.ret.type))
                 ELSE Call(m, [f EXCEPT !.pc = 2, !.key = m.ret], EvalFrame(pair.Value, f.env))
          [] f.pc = 2 ->
                 IF isError(m.ret) THEN Return(m, m.ret)
                 ELSE Resume(m, [f EXCEPT !.pc = 0, !.i = @ + 1,
                                          !.pairs = PairsSet(@, f.key, m.ret)],
                             m.ret)

evalMapLiteralFrame(node, env) ==
    [fn |-> "evalMapLiteral", pc |-> 0, node |-> node, env |-> env, i |-> 1, pairs |-> <<>>,
     key |-> NilObject]

\* evalRangeLiteral: at 1 the start has come back, at 2 the end
evalRangeLiteral(m, f) ==
    CASE f.pc = 0 -> Call(m, At(f, 1), EvalFrame(f.node.Start, f.env))
      [] f.pc = 1 ->
             IF isError(m.ret) THEN Return(m, m.ret)
             ELSE Call(m, [f EXCEPT !.pc = 2, !.val = m.ret], EvalFrame(f.node.End, f.env))
      [] f.pc = 2 ->
             IF isError(m.ret) THEN Return(m, m.ret)
             ELSE IF f.val = NilObject THEN Crash(m, NilDereference.Message)
             ELSE IF f.val.type # "INTEGER"
             THEN Return(m, newError("range start must be an integer, got " \o f.val.type))
             ELSE IF m.ret = NilObject THEN Crash(m, NilDereference.Message)
             ELSE IF m.ret.type # "INTEGER"
             THEN Return(m, newError("range end must be an integer, got " \o m.ret.type))
             ELSE LET r == NewId(m.h)
                  IN  Return(WithHeap(m, r.h),
                             [type |-> "RANGE", id |-> r.id, Start |-> f.val.Value,
                              End |-> m.ret.Value])

evalRangeLiteralFrame(node, env) ==
    [fn |-> "evalRangeLiteral", pc |-> 0, node |-> node, env |-> env, val |-> NilObject]

\* evalLogicalExpression: at 1 the left operand has come back
evalLogicalExpression(m, f) ==
    IF f.pc = 0 THEN Call(m, At(f, 1), EvalFrame(f.node.Left, f.env))
    ELSE IF isError(m.ret) THEN Return(m, m.ret)
    ELSE IF f.node.Operator = "and"
    THEN IF ~isTruthyIn(m.h, m.ret) THEN Return(m, m.ret)
         ELSE TailEval(m, f.node.Right, f.env)
    ELSE IF isTruthyIn(m.h, m.ret) THEN Return(m, m.ret)
    ELSE TailEval(m, f.node.Right, f.env)

evalLogicalExpressionFrame(node, env) ==
    [fn |-> "evalLogicalExpression", pc |-> 0, node |-> node, env |-> env]

\* evalIfExpression: at 1 the condition has come back
evalIfExpression(m, f) ==
    IF f.pc = 0 THEN Call(m, At(f, 1), EvalFrame(f.node.Condition, f.env))
    ELSE IF isError(m.ret) THEN Return(m, m.ret)
    ELSE IF isTruthyIn(m.h, m.ret) THEN TailEval(m, f.node.Consequence, f.env)
    ELSE IF f.node.Alternative # NIL THEN TailEval(m, f.node.Alternative, f.env)
    ELSE Return(m, NULL)

evalIfExpressionFrame(node, env) ==
    [fn |-> "evalIfExpression", pc |-> 0, node |-> node, env |-> env]

\* what evalForStatement ranges over: the values the loop variable takes, for an
\* Array read from its backing array as the loop reaches them
forLength(m, it) ==
    CASE it.type = "ARRAY" -> it.slice.len
      [] it.type = "STRING" -> Len(it.Value)
      [] it.type = "MAP" -> Len(it.keys)
      [] it.type = "RANGE" -> IF I64Less(it.cur, it.End) THEN 1 ELSE 0

forElement(m, it, i) ==
    CASE it.type = "ARRAY" -> SliceAt(m.h, it.slice, i - 1)
      [] it.type = "STRING" -> StringObject(SubSeq(it.Value, i, i))
      [] it.type = "MAP" -> it.keys[i]
      [] it.type = "RANGE" -> IntegerObject(it.cur)

\* evalForStatement binding the loop variable in the Environment of the loop
\* itself: against this variant C15 fails
evalForStatementInPlace(m, f) ==
    LET fs == f.node
        it == f.it
    IN  CASE f.pc = 0 ->
                 Call(m, [f EXCEPT !.pc = 1, !.id = m.steps], EvalFrame(fs.Iterable, f.env))
          [] f.pc = 1 ->
                 LET obj == m.ret
                 IN  CASE isError(obj) -> Return(m, obj)
                       [] obj = NilObject -> Crash(m, NilDereference.Message)
                       [] obj.type = "ARRAY" ->
                              Resume(m, [f EXCEPT !.pc = 2,
                                                  !.it = [type |-> "ARRAY",
                                                          slice |-> m.h.arrays[obj.id]]],
                                     m.ret)
                       [] obj.type = "RANGE" ->
                              Resume(m, [f EXCEPT !.pc = 2,
                                                  !.it = [type |-> "RANGE", cur |-> obj.Start,
                                                          End |-> obj.End]],
                                     m.ret)
                       [] obj.type = "STRING" ->
                              Resume(m, [f EXCEPT !.pc = 2,
                                                  !.it = [type |-> "STRING", Value |-> obj.Value]],
                                     m.ret)
                       [] obj.type = "MAP" ->
                              Resume(m, [f EXCEPT !.pc = 2,
                                                  !.it = [type |-> "MAP",
                                                          keys |-> [j \in 1..Len(m.h.maps[obj.id]) |->
                                                              Ranged(m, m.h.maps[obj.id])[j].Key]]],
                                     m.ret)
                       [] OTHER -> Return(m, newError("cannot iterate over " \o obj.type))
          [] f.pc = 2 ->
                 IF f.i > forLength(m, it) THEN Return(m, f.result)
                 ELSE LET h == EnvSet(m.h, f.env, fs.Variable, forElement(m, it, f.i))
                      IN  Call(Log(WithHeap(m, h), "iter", f.id, f.n + 1, NilObject),
                               [f EXCEPT !.pc = 3, !.n = @ + 1], EvalFrame(fs.Body, f.env))
          [] f.pc = 3 ->
                 IF isError(m.ret) \/ m.ret.type = "RETURN_VALUE" THEN Return(m, m.ret)
                 ELSE Resume(m, [f EXCEPT !.pc = 2, !.result = m.ret,
                                          !.i = IF it.type = "RANGE" THEN @ ELSE @ + 1,
                                          !.it = IF it.type = "RANGE"
                                                 THEN [@ EXCEPT !.cur = I64Add(@, I64One)]
                                                 ELSE @],
                             m.ret)

\* evalForStatement: at 1 the iterable has come back, at 2 the loop is at its head,
\* at 3 the body has come back
evalForStatement(m, f) ==
    LET fs == f.node
        it == f.it
    IN  CASE f.pc = 0 ->
                 Call(m, [f EXCEPT !.pc = 1, !.id = m.steps], EvalFrame(fs.Iterable, f.env))
          [] f.pc = 1 ->
                 LET obj == m.ret
                 IN  CASE isError(obj) -> Return(m, obj)
                       [] obj = NilObject -> Crash(m, NilDereference.Message)
                       [] obj.type = "ARRAY" ->
                              Resume(m, [f EXCEPT !.pc = 2,
                                                  !.it = [type |-> "ARRAY",
                                                          slice |-> m.h.arrays[obj.id]]],
                                     m.ret)
                       [] obj.type = "RANGE" ->
                              Resume(m, [f EXCEPT !.pc = 2,
                                                  !.it = [type |-> "RANGE", cur |-> obj.Start,
                                                          End |-> obj.End]],
                                     m.ret)
                       [] obj.type = "STRING" ->
                              Resume(m, [f EXCEPT !.pc = 2,
                                                  !.it = [type |-> "STRING", Value |-> obj.Value]],
                                     m.ret)
                       [] obj.type = "MAP" ->
                              Resume(m, [f EXCEPT !.pc = 2,
                                                  !.it = [type |-> "MAP",
                                                          keys |-> [j \in 1..Len(m.h.maps[obj.id]) |->
                                                              Ranged(m, m.h.maps[obj.id])[j].Key]]],
                                     m.ret)
                       [] OTHER -> Return(m, newError("cannot iterate over " \o obj.type))
          [] f.pc = 2 ->
                 IF f.i > forLength(m, it) THEN Return(m, f.result)
                 ELSE LET e == NewEnclosedEnvironment(m.h, f.env)
                          h == EnvSet(e.h, e.env, fs.Variable, forElement(m, it, f.i))
                      IN  Call(Log(WithHeap(m, h), "iter", f.id, f.n + 1, NilObject),
                               [f EXCEPT !.pc = 3, !.n = @ + 1], EvalFrame(fs.Body, e.env))
          [] f.pc = 3 ->
                 IF isError(m.ret) \/ m.ret.type = "RETURN_VALUE" THEN Return(m, m.ret)
                 ELSE Resume(m, [f EXCEPT !.pc = 2, !.result = m.ret,
                                          !.i = IF it.type = "RANGE" THEN @ ELSE @ + 1,
                                          !.it = IF it.type = "RANGE"
                                                 THEN [@ EXCEPT !.cur = I64Add(@, I64One)]
                                                 ELSE @],
                             m.ret)

evalForStatementFrame(node, env) ==
    [fn |-> "evalForStatement", pc |-> 0, node |-> node, env |-> env, i |-> 1,
     it |-> NilObject, result |-> NULL, id |-> 0, n |-> 0]

\* evalWhileStatement: at 0 the loop is at its head, at 1 the condition has come
\* back, at 2 the body
evalWhileStatement(m, f) ==
    LET ws == f.node
    IN  CASE f.pc = 0 ->
                 Call(m, [f EXCEPT !.pc = 1, !.id = m.steps], EvalFrame(ws.Condition, f.env))
          [] f.pc = 1 ->
                 IF isError(m.ret) THEN Return(m, m.ret)
                 ELSE IF ~isTruthyIn(m.h, m.ret) THEN Return(m, f.result)
                 ELSE Call(Log(m, "iter", f.id, f.n + 1, NilObject),
                           [f EXCEPT !.pc = 2, !.n = @ + 1], EvalFrame(ws.Body, f.env))
          [] f.pc = 2 ->
                 IF isError(m.ret) \/ m.ret.type = "RETURN_VALUE" THEN Return(m, m.ret)
                 ELSE Call(m, [f EXCEPT !.pc = 1, !.result = m.ret],
                           EvalFrame(ws.Condition, f.env))

evalWhileStatementFrame(node, env) ==
    [fn |-> "evalWhileStatement", pc |-> 0, node |-> node, env |-> env, result |-> NULL,
     id |-> 0, n |-> 0]

applyFunctionFrame(function, args, callArgs) ==
    [fn |-> "applyFunction", pc |-> 0, function |-> function, args |-> args,
     callArgs |-> callArgs, id |-> 0, caller |-> 0]

\* evalPipeExpression: at 1 the left side has come back, at 2 the callee, at 3 the
\* loop over the arguments of the call is at its head, at 4 an argument has come back
evalPipeExpression(m, f) ==
    LET pe == f.node
        right == pe.Right
    IN  CASE f.pc = 0 -> Call(m, At(f, 1), EvalFrame(pe.Left, f.env))
          [] f.pc = 1 ->
                 IF isError(m.ret) THEN Return(m, m.ret)
                 ELSE IF right.kind = "CallExpression"
                 THEN Call(m, [f EXCEPT !.pc = 2, !.args = <<m.ret>>],
                           EvalFrame(right.Function, f.env))
                 ELSE IF right.kind = "Identifier"
                 THEN LET function == evalIdentifier(m.h, right, f.env)
                      IN  IF isError(function) THEN Return(m, function)
                          ELSE Resume(m, applyFunctionFrame(function, <<m.ret>>, <<>>), m.ret)
                 ELSE Return(m, newError("right side of pipe must be a function call"))
          [] f.pc = 2 ->
                 IF isError(m.ret) THEN Return(m, m.ret)
                 ELSE Resume(m, [f EXCEPT !.pc = 3, !.function = m.ret], m.ret)
          [] f.pc = 3 ->
                 IF f.i > Len(right.Arguments)
                 THEN Resume(m, applyFunctionFrame(f.function, f.args, <<>>), m.ret)
                 ELSE Call(m, At(f, 4), EvalFrame(right.Arguments[f.i].Value, f.env))
          [] f.pc = 4 ->
                 IF isError(m.ret) THEN Return(m, m.ret)
                 ELSE Resume(m, [f EXCEPT !.pc = 3, !.i = @ + 1, !.args = Append(@, m.ret)],
                             m.ret)

evalPipeExpressionFrame(node, env) ==
    [fn |-> "evalPipeExpression", pc |-> 0, node |-> node, env |-> env, i |-> 1,
     args |-> <<>>, function |-> NilObject]

\* evalAssignExpression: at 1 the value has come back, at 2 the indexed object, at 3
\* the index
evalAssignExpression(m, f) ==
    LET ae == f.node
        target == ae.Name
    IN  CASE f.pc = 0 -> Call(m, At(f, 1), EvalFrame(ae.Value, f.env))
          [] f.pc = 1 ->
                 IF isError(m.ret) THEN Return(m, m.ret)
                 ELSE IF target.kind = "Identifier"
                 THEN LET u == EnvUpdate(m.h, f.env, target.Value, m.ret)
                      IN  IF ~u.ok
                          THEN Return(m, newError("undefined variable: " \o target.Value))
                          ELSE Return(WithHeap(m, u.h), m.ret)
                 ELSE IF target.kind = "IndexExpression"
                 THEN Call(m, [f EXCEPT !.pc = 2, !.val = m.ret], EvalFrame(target.Left, f.env))
                 ELSE Return(m, newError("cannot assign to this expression"))
          [] f.pc = 2 ->
                 IF isError(m.ret) THEN Return(m, m.ret)
                 ELSE Call(m, [f EXCEPT !.pc = 3, !.left = m.ret],
                           EvalFrame(target.Index, f.env))
          [] f.pc = 3 ->
                 LET index == m.ret
                     left == f.left
                 IN  CASE isError(index) -> Return(m, index)
                       [] left = NilObject -> Crash(m, NilDereference.Message)
                       [] left.type = "ARRAY" ->
                              IF index.type # "INTEGER"
                              THEN Crash(m, "interface conversion: object.Object is not *object.Integer")
                              ELSE IF I64IsNeg(index.Value)
                                      \/ ~I64Less(index.Value, I64OfNat(m.h.arrays[left.id].len))
                              THEN Return(m, newError("array index out of bounds: "
                                                      \o FormatInt(index.Value)))
                              ELSE Return(WithHeap(m, SliceSet(m.h, m.h.arrays[left.id],
                                                               I64ToInt(index.Value), f.val)),
                                          f.val)
                       [] left.type = "MAP" ->
                              IF index = NilObject THEN Crash(m, NilDereference.Message)
                              ELSE IF ~Hashable(index)
                              THEN Return(m, newError("unusable as map key: " \o index.type))
                              ELSE Return(WithHeap(m, [m.h EXCEPT !.maps[left.id] =
                                                          PairsSet(@, index, f.val)]),
                                          f.val)
                       [] OTHER -> Return(m, newError("cannot assign to index of " \o left.type))

evalAssignExpressionFrame(node, env) ==
    [fn |-> "evalAssignExpression", pc |-> 0, node |-> node, env |-> env, val |-> NilObject,
     left |-> NilObject]

\* whether extendFunctionEnv takes args[i] as a named argument
IsNamedArg(callArgs, i) == i <= Len(callArgs) /\ callArgs[i].Name # ""

\* namedArgs of extendFunctionEnv: a later argument of a name replaces an earlier one
namedArgsOf(args, callArgs) ==
    LET named == {i \in 1..Len(args) : IsNamedArg(callArgs, i)}
    IN  [n \in {callArgs[i].Name : i \in named} |->
            args[CHOOSE i \in named :
                    /\ callArgs[i].Name = n
                    /\ \A j \in named : callArgs[j].Name = n => j <= i]]

\* positionalArgs of extendFunctionEnv
positionalArgsOf(args, callArgs) ==
    LET positions == {i \in 1..Len(args) : ~IsNamedArg(callArgs, i)}
    IN  [k \in 1..Cardinality(positions) |->
            args[CHOOSE i \in positions : Cardinality({j \in positions : j < i}) = k - 1]]

\* a copy of an Array argument, any other argument itself
CopyOf(h, v) ==
    IF v = NilObject \/ v.type # "ARRAY" THEN [h |-> h, obj |-> v]
    ELSE LET copied(made) == NewArray(made.h, made.s) IN copied(MakeSlice(h, Elements(h, v)))

\* a binding of the positional arguments by value, every Array argument copied:
\* against this variant C14 fails
RECURSIVE bindParametersByValue(_, _, _, _, _, _, _)
bindParametersByValue(h, env, params, i, namedArgs, positionalArgs, posIdx) ==
    IF i > Len(params) THEN [h |-> h, i |-> i, posIdx |-> posIdx, pending |-> FALSE]
    ELSE IF posIdx < Len(positionalArgs)
    THEN LET bound(c) ==
                 bindParametersByValue(EnvSet(c.h, env, params[i].Name, c.obj), env, params,
                                       i + 1, namedArgs, positionalArgs, posIdx + 1)
         IN  bound(CopyOf(h, positionalArgs[posIdx + 1]))
    ELSE bindParametersByValue(EnvSet(h, env, params[i].Name, NULL), env, params, i + 1,
                               namedArgs, positionalArgs, posIdx)

\* the loop of extendFunctionEnv over the parameters from the i-th on, up to the
\* first whose default has to be evaluated (pending) or to the end
RECURSIVE bindParameters(_, _, _, _, _, _, _)
bindParameters(h, env, params, i, namedArgs, positionalArgs, posIdx) ==
    IF i > Len(params) THEN [h |-> h, i |-> i, posIdx |-> posIdx, pending |-> FALSE]
    ELSE LET name == params[i].Name
         IN  IF name \in DOMAIN namedArgs
             THEN bindParameters(EnvSet(h, env, name, namedArgs[name]), env, params, i + 1,
                                 namedArgs, positionalArgs, posIdx)
             ELSE IF posIdx < Len(positionalArgs)
             THEN bindParameters(EnvSet(h, env, name, positionalArgs[posIdx + 1]), env, params,
                                 i + 1, namedArgs, positionalArgs, posIdx + 1)
             ELSE IF params[i].Default # NIL
             THEN [h |-> h, i |-> i, posIdx |-> posIdx, pending |-> TRUE]
             ELSE bindParameters(EnvSet(h, env, name, NULL), env, params, i + 1,
                                 namedArgs, positionalArgs, posIdx)

\* extendFunctionEnv binding the parameters in the captured Environment itself:
\* against this variant C5 fails
extendFunctionEnvShared(m, f) ==
    LET function == f.function
        params == function.Parameters
        e == IF f.pc = 0 THEN [h |-> m.h, env |-> function.Env]
             ELSE [h |-> EnvSet(m.h, f.env, params[f.i].Name, m.ret), env |-> f.env]
        b == bindParameters(e.h, e.env, params, IF f.pc = 0 THEN 1 ELSE f.i + 1,
                            namedArgsOf(f.args, f.callArgs),
                            positionalArgsOf(f.args, f.callArgs), f.posIdx)
    IN  IF b.pending
        THEN Call(WithHeap(m, b.h),
                  [f EXCEPT !.pc = 1, !.env = e.env, !.i = b.i, !.posIdx = b.posIdx],
                  EvalFrame(params[b.i].Default, function.Env))
        ELSE Return(WithHeap(m, b.h), e.env)

\* extendFunctionEnv: at 1 the default of the i-th parameter has come back; it
\* returns the new Environment
extendFunctionEnv(m, f) ==
    LET function == f.function
        params == function.Parameters
        e == IF f.pc = 0 THEN NewEnclosedEnvironment(m.h, function.Env)
             ELSE [h |-> EnvSet(m.h, f.env, params[f.i].Name, m.ret), env |-> f.env]
        b == bindParameters(e.h, e.env, params, IF f.pc = 0 THEN 1 ELSE f.i + 1,
                            namedArgsOf(f.args, f.callArgs),
                            positionalArgsOf(f.args, f.callArgs), f.posIdx)
    IN  IF b.pending
        THEN Call(WithHeap(m, b.h),
                  [f EXCEPT !.pc = 1, !.env = e.env, !.i = b.i, !.posIdx = b.posIdx],
                  EvalFrame(params[b.i].Default, function.Env))
        ELSE Return(WithHeap(m, b.h), e.env)

extendFunctionEnvFrame(function, args, callArgs) ==
    [fn |-> "extendFunctionEnv", pc |-> 0, function |-> function, args |-> args,
     callArgs |-> callArgs, env |-> 0, i |-> 1, posIdx |-> 0]

\* what print writes for its arguments: their display forms, one after the other
RECURSIVE InspectAll(_, _, _)
InspectAll(h, args, i) ==
    IF i > Len(args) THEN "" ELSE Inspect(h, args[i]) \o InspectAll(h, args, i + 1)

\* strings.Index(s, substr) counted from 0, -1 when substr does not occur
StringsIndex(s, substr) ==
    LET at == {i \in 0..(Len(s) - Len(substr)) : SubSeq(s, i + 1, i + Len(substr)) = substr}
    IN  IF at = {} THEN -1 ELSE CHOOSE i \in at : \A j \in at : i <= j

\* strings.Replace(s, old, new, n) for n = 1 and for n < 0 (every occurrence):
\* the occurrences are taken from the left and do not overlap; an empty old
\* matches before every byte and at the end
RECURSIVE StringsReplace(_, _, _, _)
StringsReplace(s, old, new, n) ==
    IF n = 0 THEN s
    ELSE IF old = ""
    THEN IF s = "" \/ n = 1 THEN new \o s
         ELSE new \o SubSeq(s, 1, 1) \o StringsReplace(SubSeq(s, 2, Len(s)), old, new, n)
    ELSE LET i == StringsIndex(s, old)
         IN  IF i < 0 THEN s
             ELSE SubSeq(s, 1, i) \o new
                  \o StringsReplace(SubSeq(s, i + Len(old) + 1, Len(s)), old, new,
                                    IF n < 0 THEN n ELSE n - 1)

\* strings.Repeat(s, count) for count >= 0
RECURSIVE StringsRepeat(_, _)
StringsRepeat(s, count) == IF count = 0 THEN "" ELSE s \o StringsRepeat(s, count - 1)

\* the atoms of a pattern of plain characters and \d, each matching one byte
RECURSIVE Atoms(_)
Atoms(pattern) ==
    IF pattern = "" THEN <<>>
    ELSE IF Len(pattern) >= 2 /\ SubSeq(pattern, 1, 2) = "\\d"
    THEN <<"\\d">> \o Atoms(SubSeq(pattern, 3, Len(pattern)))
    ELSE <<SubSeq(pattern, 1, 1)>> \o Atoms(SubSeq(pattern, 2, Len(pattern)))

\* the patterns whose replacement is modelled: one or more such atoms
AtomPattern(pattern) ==
    /\ pattern # ""
    /\ \A k \in 1..Len(Atoms(pattern)) :
          LET a == Atoms(pattern)[k] IN a = "\\d" \/ isLetter(a) \/ isDigit(a) \/ a = " "

\* whether the atoms match the bytes of s that start at position i (from 0)
MatchesAt(atoms, s, i) ==
    /\ i + Len(atoms) <= Len(s)
    /\ \A k \in 1..Len(atoms) :
          LET ch == SubSeq(s, i + k, i + k)
          IN  IF atoms[k] = "\\d" THEN isDigit(ch) ELSE ch = atoms[k]

\* re.ReplaceAllString(s, repl) for an atom pattern and a repl without $: every
\* match, taken from the left without overlap, becomes repl
RECURSIVE ReplaceAllString(_, _, _)
ReplaceAllString(atoms, s, repl) ==
    IF s = "" THEN ""
    ELSE IF MatchesAt(atoms, s, 0)
    THEN repl \o ReplaceAllString(atoms, SubSeq(s, Len(atoms) + 1, Len(s)), repl)
    ELSE SubSeq(s, 1, 1) \o ReplaceAllString(atoms, SubSeq(s, 2, Len(s)), repl)

\* builtins["regex"]: regexp.Compile accepts every atom pattern
regex(m, args) ==
    IF Len(args) # 1 THEN Return(m, newError("regex() takes 1 argument"))
    ELSE IF args[1] = NilObject \/ args[1].type # "STRING"
    THEN Return(m, newError("regex() requires a string pattern"))
    ELSE IF ~AtomPattern(args[1].Value) THEN Crash(m, "regexp not modelled")
    ELSE LET r == NewId(m.h)
         IN  Return(WithHeap(m, r.h),
                    [type |-> "REGEX", id |-> r.id, Pattern |-> args[1].Value])

\* builtins["replace"]
replace(m, args) ==
    IF Len(args) # 3
    THEN Return(m, newError("replace() takes 3 arguments: string, old, new"))
    ELSE IF args[1] = NilObject \/ args[1].type # "STRING"
    THEN Return(m, newError("replace() first arg must be a string"))
    ELSE IF args[2] # NilObject /\ args[2].type = "STRING"
    THEN IF args[3] = NilObject \/ args[3].type # "STRING"
         THEN Return(m, newError("replace() new must be a string"))
         ELSE Return(m, StringObject(StringsReplace(args[1].Value, args[2].Value,
                                                    args[3].Value, 1)))
    ELSE IF args[2] # NilObject /\ args[2].type = "REGEX"
    THEN IF args[3] = NilObject \/ args[3].type # "STRING"
         THEN Return(m, newError("replace() new must be a string"))
         ELSE IF ~AtomPattern(args[2].Pattern) \/ StringsIndex(args[3].Value, "$") >= 0
         THEN Crash(m, "regexp not modelled")
         ELSE Return(m, StringObject(ReplaceAllString(Atoms(args[2].Pattern),
                                                      args[1].Value, args[3].Value)))
    ELSE Return(m, newError("replace() old must be a string or regex"))

\* builtins["replace_all"]
replace_all(m, args) ==
    IF Len(args) # 3 THEN Return(m, newError("replace_all() takes 3 arguments"))
    ELSE IF args[1] = NilObject \/ args[1].type # "STRING"
    THEN Return(m, newError("replace_all() first arg must be a string"))
    ELSE IF args[2] = NilObject \/ args[2].type # "STRING"
    THEN Return(m, newError("replace_all() old must be a string"))
    ELSE IF args[3] = NilObject \/ args[3].type # "STRING"
    THEN Return(m, newError("replace_all() new must be a string"))
    ELSE Return(m, StringObject(StringsReplace(args[1].Value, args[2].Value,
                                               args[3].Value, -1)))

\* the panic of s[low:high] on a string or slice of the given length
SliceBounds(low, high, length) ==
    IF I64IsNeg(high) \/ I64Less(I64(length), high)
    THEN "slice bounds out of range [:" \o FormatInt(high) \o "] with length " \o Itoa(length)
    ELSE "slice bounds out of range [" \o FormatInt(low) \o ":" \o FormatInt(high) \o "]"

\* builtins["substr"]: startIdx and endIdx are Go ints, 64 bits wide
substr(m, args) ==
    IF Len(args) < 2 \/ Len(args) > 3 THEN Return(m, newError("substr() takes 2-3 arguments"))
    ELSE IF args[1] = NilObject \/ args[1].type # "STRING"
    THEN Return(m, newError("substr() requires a string"))
    ELSE IF args[2] = NilObject \/ args[2].type # "INTEGER"
    THEN Return(m, newError("substr() start must be an integer"))
    ELSE LET s == args[1].Value
             length == I64(Len(s))
             fromEnd == IF I64IsNeg(args[2].Value) THEN I64Add(length, args[2].Value)
                        ELSE args[2].Value
             startIdx == IF I64IsNeg(fromEnd) THEN I64Zero ELSE fromEnd
         IN  IF ~I64Less(startIdx, length) THEN Return(m, StringObject(""))
             ELSE IF Len(args) = 2
             THEN Return(m, StringObject(Slice(s, I64ToInt(startIdx), Len(s))))
             ELSE IF args[3] = NilObject \/ args[3].type # "INTEGER"
             THEN Return(m, newError("substr() length must be an integer"))
             ELSE LET sum == I64Add(startIdx, args[3].Value)
                      endIdx == IF I64Less(length, sum) THEN length ELSE sum
                  IN  IF I64Less(endIdx, startIdx)
                      THEN Crash(m, SliceBounds(startIdx, endIdx, Len(s)))
                      ELSE Return(m, StringObject(Slice(s, I64ToInt(startIdx),
                                                        I64ToInt(endIdx))))

\* the largest count for which the text of strings.Repeat is built
MaxRepeat == 64

\* builtins["repeat"]: strings.Repeat panics on a negative count
repeat(m, args) ==
    IF Len(args) # 2 THEN Return(m, newError("repeat() takes 2 arguments"))
    ELSE IF args[1] = NilObject \/ args[1].type # "STRING"
    THEN Return(m, newError("repeat() requires a string"))
    ELSE IF args[2] = NilObject \/ args[2].type # "INTEGER"
    THEN Return(m, newError("repeat() count must be an integer"))
    ELSE IF I64IsNeg(args[2].Value) THEN Crash(m, "strings: negative Repeat count")
    ELSE IF ~I64InRange(args[2].Value, 0, MaxRepeat) THEN Crash(m, "repeat not modelled")
    ELSE Return(m, StringObject(StringsRepeat(args[1].Value, I64ToInt(args[2].Value))))

\* builtins["pop"]
pop(m, args) ==
    IF Len(args) # 1 THEN Return(m, newError("pop() takes 1 argument"))
    ELSE IF args[1] = NilObject \/ args[1].type # "ARRAY"
    THEN Return(m, newError("pop() requires an array"))
    ELSE LET s == m.h.arrays[args[1].id]
         IN  IF s.len = 0 THEN Return(m, NULL)
             ELSE Return(WithHeap(m, [m.h EXCEPT !.arrays[args[1].id].len = @ - 1]),
                         SliceAt(m.h, s, s.len - 1))

\* builtins["shift"]
shift(m, args) ==
    IF Len(args) # 1 THEN Return(m, newError("shift() takes 1 argument"))
    ELSE IF args[1] = NilObject \/ args[1].type # "ARRAY"
    THEN Return(m, newError("shift() requires an array"))
    ELSE LET s == m.h.arrays[args[1].id]
         IN  IF s.len = 0 THEN Return(m, NULL)
             ELSE Return(WithHeap(m, [m.h EXCEPT !.arrays[args[1].id] =
                                         [b |-> s.b, off |-> s.off + 1, len |-> s.len - 1,
                                          cap |-> s.cap - 1]]),
                         SliceAt(m.h, s, 0))

\* builtins["unshift"]: the elements move to a new backing array behind args[1]
unshift(m, args) ==
    IF Len(args) # 2 THEN Return(m, newError("unshift() takes 2 arguments"))
    ELSE IF args[1] = NilObject \/ args[1].type # "ARRAY"
    THEN Return(m, newError("unshift() requires an array"))
    ELSE LET r == MakeSlice(m.h, <<args[2]>> \o Elements(m.h, args[1]))
         IN  Return(WithHeap(m, [r.h EXCEPT !.arrays[args[1].id] = r.s]), args[1])

\* builtins["slice"]: startIdx and endIdx are Go ints; the new Array holds a
\* slice of the backing array of arr
slice(m, args) ==
    IF Len(args) < 2 \/ Len(args) > 3 THEN Return(m, newError("slice() takes 2-3 arguments"))
    ELSE IF args[1] = NilObject \/ args[1].type # "ARRAY"
    THEN Return(m, newError("slice() requires an array"))
    ELSE IF args[2] = NilObject \/ args[2].type # "INTEGER"
    THEN Return(m, newError("slice() start must be an integer"))
    ELSE IF Len(args) = 3 /\ (args[3] = NilObject \/ args[3].type # "INTEGER")
    THEN Return(m, newError("slice() end must be an integer"))
    ELSE LET s == m.h.arrays[args[1].id]
             length == I64(s.len)
             fromEnd(v) == IF I64IsNeg(v) THEN I64Add(length, v) ELSE v
             start == fromEnd(args[2].Value)
             end == IF Len(args) = 3 THEN fromEnd(args[3].Value) ELSE length
             startIdx == IF I64IsNeg(start) THEN I64Zero ELSE start
             endIdx == IF I64Less(length, end) THEN length ELSE end
         IN  IF ~I64Less(startIdx, endIdx)
             THEN LET a == NewArray(m.h, NilSlice) IN Return(WithHeap(m, a.h), a.obj)
             ELSE LET a == NewArray(m.h, [b |-> s.b, off |-> s.off + I64ToInt(startIdx),
                                          len |-> I64ToInt(endIdx) - I64ToInt(startIdx),
                                          cap |-> s.cap - I64ToInt(startIdx)])
                  IN  Return(WithHeap(m, a.h), a.obj)

\* a loop that forgets a display form when it drops an element of that form:
\* against this variant C19 fails
RECURSIVE uniqueFromForgetting(_, _, _, _)
uniqueFromForgetting(els, i, seen, r) ==
    IF i > Len(els) THEN r
    ELSE LET key == Inspect(r.h, els[i])
         IN  IF key \in seen THEN uniqueFromForgetting(els, i + 1, seen \ {key}, r)
             ELSE uniqueFromForgetting(els, i + 1, seen \cup {key},
                                       SliceAppend(r.h, r.s, els[i]))

\* the loop of unique from element i on: seen is the set of display forms met,
\* r the heap and the result slice so far
RECURSIVE uniqueFrom(_, _, _, _)
uniqueFrom(els, i, seen, r) ==
    IF i > Len(els) THEN r
    ELSE LET key == Inspect(r.h, els[i])
         IN  IF key \in seen THEN uniqueFrom(els, i + 1, seen, r)
             ELSE uniqueFrom(els, i + 1, seen \cup {key}, SliceAppend(r.h, r.s, els[i]))

\* builtins["unique"]
unique(m, args) ==
    IF Len(args) # 1 THEN Return(m, newError("unique() takes 1 argument"))
    ELSE IF args[1] = NilObject \/ args[1].type # "ARRAY"
    THEN Return(m, newError("unique() requires an array"))
    ELSE LET els == Elements(m.h, args[1])
         IN  IF \E i \in 1..Len(els) : els[i] = NilObject THEN Crash(m, NilDereference.Message)
             ELSE LET r == uniqueFrom(els, 1, {}, [h |-> m.h, s |-> NilSlice])
                      a == NewArray(r.h, r.s)
                  IN  Return(WithHeap(m, a.h), a.obj)

\* the builtins that are modelled
modelledBuiltins ==
    {"print", "type", "len", "str", "push", "pop", "shift", "unshift", "slice", "unique",
     "substr", "repeat", "regex", "replace", "replace_all"}

\* fn.Fn(args...) of the builtin called name, and applyFunction's return of it
builtin(m, name, args) ==
    CASE name = "print" ->
             IF \E i \in 1..Len(args) : args[i] = NilObject THEN Crash(m, NilDereference.Message)
             ELSE Return([m EXCEPT !.out = Append(@, InspectAll(m.h, args, 1))], NULL)
      [] name = "type" ->
             IF Len(args) # 1
             THEN Return(m, newError("type() takes 1 argument, got " \o Itoa(Len(args))))
             ELSE IF args[1] = NilObject THEN Crash(m, NilDereference.Message)
             ELSE Return(m, StringObject(args[1].type))
      [] name = "len" ->
             IF Len(args) # 1
             THEN Return(m, newError("len() takes 1 argument, got " \o Itoa(Len(args))))
             ELSE CASE args[1] = NilObject -> Crash(m, NilDereference.Message)
                    [] args[1].type = "STRING" ->
                           Return(m, IntegerObject(I64OfNat(Len(args[1].Value))))
                    [] args[1].type = "ARRAY" ->
                           Return(m, IntegerObject(I64OfNat(m.h.arrays[args[1].id].len)))
                    [] args[1].type = "MAP" ->
                           Return(m, IntegerObject(I64OfNat(Len(m.h.maps[args[1].id]))))
                    [] OTHER -> Return(m, newError("len() not supported for " \o args[1].type))
      [] name = "str" ->
             IF Len(args) # 1 THEN Return(m, newError("str() takes 1 argument"))
             ELSE IF args[1] = NilObject THEN Crash(m, NilDereference.Message)
             ELSE Return(m, StringObject(Inspect(m.h, args[1])))
      [] name = "push" ->
             IF Len(args) # 2 THEN Return(m, newError("push() takes 2 arguments"))
             ELSE IF args[1].type # "ARRAY" THEN Return(m, newError("push() requires an array"))
             ELSE LET r == SliceAppend(m.h, m.h.arrays[args[1].id], args[2])
                  IN  Return(WithHeap(m, [r.h EXCEPT !.arrays[args[1].id] = r.s]), args[1])
      [] name = "pop" -> pop(m, args)
      [] name = "shift" -> shift(m, args)
      [] name = "unshift" -> unshift(m, args)
      [] name = "slice" -> slice(m, args)
      [] name = "unique" -> unique(m, args)
      [] name = "substr" -> substr(m, args)
      [] name = "repeat" -> repeat(m, args)
      [] name = "regex" -> regex(m, args)
      [] name = "replace" -> replace(m, args)
      [] name = "replace_all" -> replace_all(m, args)
      [] OTHER -> Crash(m, "builtin not modelled: " \o name)

\* applyFunction: at 1 extendFunctionEnv has come back, at 2 the body
applyFunction(m, f) ==
    LET function == f.function
    IN  CASE f.pc = 0 ->
                 CASE function = NilObject -> Crash(m, NilDereference.Message)
                   [] function.type = "FUNCTION" ->
                          Call(Log(m, "apply", m.steps, Len(m.h.envs),
                                   [function |-> function, args |-> f.args,
                                    callArgs |-> f.callArgs]),
                               [f EXCEPT !.pc = 1, !.id = m.steps, !.caller = m.app],
                               extendFunctionEnvFrame(function, f.args, f.callArgs))
                   [] function.type = "BUILTIN" -> builtin(m, function.Name, f.args)
                   [] OTHER -> Return(m, newError("not a function: " \o function.type))
          [] f.pc = 1 ->
                 Call(Log([m EXCEPT !.app = f.id], "body", f.id, m.ret, m.h.envs[m.ret]),
                      At(f, 2), EvalFrame(function.Body, m.ret))
          [] f.pc = 2 ->
                 Return([Log(m, "applied", f.id, 0, unwrapReturnValue(m.ret))
                            EXCEPT !.app = f.caller],
                        unwrapReturnValue(m.ret))

\* Eval on the nodes whose case calls Eval itself: at 1 the first operand has come
\* back, at 2 the second
Eval(m, f) ==
    LET node == f.node
        env == f.env
        kind == node.kind
    IN  CASE kind = "nil" -> Return(m, NilObject)
          [] kind = "typednil" -> Crash(m, NilDereference.Message)
          [] kind = "Program" -> evalProgram(m, evalProgramFrame(node, env))
          [] kind = "ExpressionStatement" -> TailEval(m, node.Expression, env)
          [] kind = "BlockStatement" -> evalBlockStatement(m, evalBlockStatementFrame(node, env))
          [] kind = "LetStatement" ->
                 IF f.pc = 0 THEN Call(m, At(f, 1), EvalFrame(node.Value, env))
                 ELSE IF isError(m.ret) THEN Return(m, m.ret)
                 ELSE Return(WithHeap(m, EnvSet(m.h, env, node.Name, m.ret)), m.ret)
          [] kind = "ReturnStatement" ->
                 IF node.ReturnValue = NIL
                 THEN Return(Log(m, "return", 0, 0, NULL), ReturnValue(NULL))
                 ELSE IF f.pc = 0 THEN Call(m, At(f, 1), EvalFrame(node.ReturnValue, env))
                 ELSE IF isError(m.ret) THEN Return(m, m.ret)
                 ELSE Return(Log(m, "return", 0, 0, m.ret), ReturnValue(m.ret))
          [] kind = "ForStatement" -> evalForStatement(m, evalForStatementFrame(node, env))
          [] kind = "WhileStatement" -> evalWhileStatement(m, evalWhileStatementFrame(node, env))
          [] kind = "IntegerLiteral" -> Return(m, IntegerObject(node.Value))
          [] kind = "FloatLiteral" ->
                 Deliver(m, FloatResult(FloatOf(node.Value.num, node.Value.den)))
          [] kind = "StringLiteral" -> evalStringLiteral(m, evalStringLiteralFrame(node, env))
          [] kind = "Boolean" -> Return(m, nativeBoolToBooleanObject(node.Value))
          [] kind = "NullLiteral" -> Return(m, NULL)
          [] kind = "RegexLiteral" ->
                 IF ~PlainPattern(node.Pattern) THEN Crash(m, "regexp not modelled")
                 ELSE LET r == NewId(m.h)
                      IN  Return(WithHeap(m, r.h),
                                 [type |-> "REGEX", id |-> r.id, Pattern |-> node.Pattern])
          [] kind = "ArrayLiteral" ->
                 IF f.pc = 0 THEN Call(m, At(f, 1), evalExpressionsFrame(node.Elements, env))
                 ELSE IF Len(m.ret) = 1 /\ isError(m.ret[1]) THEN Return(m, m.ret[1])
                 ELSE LET s == AppendAll(m.h, NilSlice, m.ret, 1)
                          r == NewArray(s.h, s.s)
                      IN  Return(WithHeap(m, r.h), r.obj)
          [] kind = "MapLiteral" -> evalMapLiteral(m, evalMapLiteralFrame(node, env))
          [] kind = "RangeLiteral" -> evalRangeLiteral(m, evalRangeLiteralFrame(node, env))
          [] kind = "Identifier" -> Return(m, evalIdentifier(m.h, node, env))
          [] kind = "PrefixExpression" ->
                 IF f.pc = 0 THEN Call(m, At(f, 1), EvalFrame(node.Right, env))
                 ELSE IF isError(m.ret) THEN Return(m, m.ret)
                 ELSE Deliver(m, evalPrefixExpression(m.h, node.Operator, m.ret))
          [] kind = "InfixExpression" ->
                 IF node.Operator \in {"and", "or"}
                 THEN evalLogicalExpression(m, evalLogicalExpressionFrame(node, env))
                 ELSE IF f.pc = 0 THEN Call(m, At(f, 1), EvalFrame(node.Left, env))
                 ELSE IF isError(m.ret) THEN Return(m, m.ret)
                 ELSE IF f.pc = 1
                 THEN Call(m, [f EXCEPT !.pc = 2, !.val = m.ret], EvalFrame(node.Right, env))
                 ELSE Deliver(m, evalInfixExpression(node.Operator, f.val, m.ret))
          [] kind = "IfExpression" -> evalIfExpression(m, evalIfExpressionFrame(node, env))
          [] kind = "FunctionLiteral" ->
                 LET r == NewId(m.h)
                     function == [type |-> "FUNCTION", id |-> r.id,
                                  Parameters |-> node.Parameters, Body |-> node.Body,
                                  Env |-> env, Name |-> node.Name]
                 IN  Return(WithHeap(m, IF node.Name # ""
                                        THEN EnvSet(r.h, env, node.Name, function) ELSE r.h),
                            function)
          [] kind = "CallExpression" ->
                 IF f.pc = 0 THEN Call(m, At(f, 1), EvalFrame(node.Function, env))
                 ELSE IF f.pc = 1
                 THEN IF isError(m.ret) THEN Return(m, m.ret)
                      ELSE Call(m, [f EXCEPT !.pc = 2, !.val = m.ret],
                                evalCallArgumentsFrame(node.Arguments, env))
                 ELSE IF Len(m.ret) = 1 /\ isError(m.ret[1]) THEN Return(m, m.ret[1])
                 ELSE applyFunction(m, applyFunctionFrame(f.val, m.ret, node.Arguments))
          [] kind = "IndexExpression" ->
                 IF f.pc = 0 THEN Call(m, At(f, 1), EvalFrame(node.Left, env))
                 ELSE IF isError(m.ret) THEN Return(m, m.ret)
                 ELSE IF f.pc = 1
                 THEN Call(m, [f EXCEPT !.pc = 2, !.val = m.ret], EvalFrame(node.Index, env))
                 ELSE Deliver(m, evalIndexExpression(m.h, f.val, m.ret))
          [] kind = "PipeExpression" -> evalPipeExpression(m, evalPipeExpressionFrame(node, env))
          [] kind = "AssignExpression" ->
                 evalAssignExpression(m, evalAssignExpressionFrame(node, env))

\* one step of the evaluator: the running routine runs to its next call or return
evalStep(m) ==
    IF m.k = <<>> \/ m.steps >= EvalFuel THEN m
    ELSE LET f == Head(m.k)
             n == [m EXCEPT !.steps = @ + 1]
         IN  CASE f.fn = "Eval" -> Eval(n, f)
               [] f.fn = "evalProgram" -> evalProgram(n, f)
               [] f.fn = "evalBlockStatement" -> evalBlockStatement(n, f)
               [] f.fn = "evalStringLiteral" -> evalStringLiteral(n, f)
               [] f.fn = "evalExpressions" -> evalExpressions(n, f)
               [] f.fn = "evalMapLiteral" -> evalMapLiteral(n, f)
               [] f.fn = "evalRangeLiteral" -> evalRangeLiteral(n, f)
               [] f.fn = "evalLogicalExpression" -> evalLogicalExpression(n, f)
               [] f.fn = "evalIfExpression" -> evalIfExpression(n, f)
               [] f.fn = "evalForStatement" -> evalForStatement(n, f)
               [] f.fn = "evalWhileStatement" -> evalWhileStatement(n, f)
               [] f.fn = "evalPipeExpression" -> evalPipeExpression(n, f)
               [] f.fn = "evalAssignExpression" -> evalAssignExpression(n, f)
               [] f.fn = "extendFunctionEnv" -> extendFunctionEnv(n, f)
               [] f.fn = "applyFunction" -> applyFunction(n, f)

\* up to n steps, each taken once the one before is done
RECURSIVE evalSteps(_, _)
evalSteps(m, n) == IF n = 0 \/ m.k = <<>> THEN m ELSE evalSteps(evalStep(m), n - 1)

\* up to n runs of 8 steps
RECURSIVE evalBlocks(_, _)
evalBlocks(m, n) == IF n = 0 \/ m.k = <<>> THEN m ELSE evalBlocks(evalSteps(m, 8), n - 1)

\* the evaluator run until the first call has returned, a panic, or the fuel is spent
RECURSIVE evalRun(_)
evalRun(m) == IF m.k = <<>> \/ m.steps >= EvalFuel THEN m ELSE evalRun(evalBlocks(m, 8))

\* evaluator.Eval(node, env) on the heap h: the Object returned (result), the heap
\* and the printed lines it leaves, the panic if it ended in one, and whether it
\* ended at all within the fuel
EvalIn(h, node, env, order) ==
    LET left(m) == [result |-> m.ret, h |-> m.h, out |-> m.out, panic |-> m.panic,
                    done |-> m.k = <<>>, trace |-> m.trace]
    IN  left(evalRun([k |-> <<EvalFrame(node, env)>>, ret |-> NilObject, h |-> h,
                      out |-> <<>>, steps |-> 0, panic |-> "", order |-> order, app |-> 0,
                      trace |-> <<>>]))

(***************************************************************************)
(* The interpreter as a process.  pc is where it stands: in main, at the   *)
(* head of the loop of Start waiting for a line, or exited.  argv is the   *)
(* command line after flag.Parse, world the files it can read, the heap    *)
(* and the Environment of the run, console the writes to standard output   *)
(* (fd 1) and standard error (fd 2) in their order.  run records the last  *)
(* source text handled: its diagnostics, how often Eval was called on its  *)
(* Program (evals), what Eval returned and the history of that evaluation. *)
(***************************************************************************)
Stdout(text) == [fd |-> 1, text |-> text]

Stderr(text) == [fd |-> 2, text |-> text]

\* fmt.Fprintln of each line of lines, prefixed, on the stream fd
Lines(fd, prefix, lines) == [i \in 1..Len(lines) |-> [fd |-> fd, text |-> prefix \o lines[i] \o "\n"]]

PROMPT == "pearl> "

LOGO == "\n                      _ \n  _ __   ___  __ _ _ __| |\n | '_ \\ / _ \\/ _' | '__| |\n | |_) |  __/ (_| | |  | |\n | .__/ \\___|\\__,_|_|  |_|\n |_|   \n"

\* what flag.Usage writes
Usage ==
    <<Stderr("Pearl - A better Perl\n\n"), Stderr("Usage:\n"),
      Stderr("  pearl                  Start the REPL\n"),
      Stderr("  pearl -f <file>        Run a file\n"),
      Stderr("  pearl -e '<code>'      Evaluate code\n"),
      Stderr("  pearl <file>           Run a file (shorthand)\n"),
      Stderr("\nFlags:\n"),
      Stderr("  -check\n    \tjust check syntax, dont run\n"),
      Stderr("  -e string\n    \tevaluate expression\n"),
      Stderr("  -f string\n    \tfile to run\n"),
      Stderr("  -help\n    \tshow help\n"),
      Stderr("  -version\n    \tprint version\n")>>

\* the orders in which a run may range over its maps
MapOrders == {1, -1}

\* no source text handled yet
NoRun ==
    [via |-> "", code |-> "", errors |-> <<>>, evals |-> 0, result |-> NilObject,
     trace |-> <<>>]

\* what a Go panic leaves: the message on standard error and exit status 2
PanicExit(msg) == [console |-> <<Stderr("panic: " \o msg \o "\n")>>, status |-> 2]

\* runCode without its test of the diagnostics: against this variant C1 fails
runCodeWithDiagnostics(code, checkOnly, order) ==
    LET parsed == Parse(code)
        e == NewEnvironment(EmptyHeap)
        r == EvalIn(e.h, parsed.program, e.env, order)
        unrun == [via |-> "runCode", code |-> code, errors |-> parsed.errors, evals |-> 0,
                  result |-> NilObject, trace |-> <<>>]
        ran == [unrun EXCEPT !.evals = 1, !.result = r.result, !.trace = r.trace]
    IN  IF checkOnly
        THEN [ended |-> parsed.done, run |-> unrun, console |-> <<Stdout("syntax ok\n")>>,
              status |-> 0, heap |-> [h |-> EmptyHeap, env |-> 0]]
        ELSE [ended |-> parsed.done /\ r.done, run |-> ran, console |-> Lines(1, "", r.out),
              status |-> 0, heap |-> [h |-> r.h, env |-> e.env]]

\* runCode: the writes it makes, the exit status (0 when it returns), the heap it
\* leaves, and the record of the run; ended is whether it ends at all
runCode(code, checkOnly, order) ==
    LET unrun(parsed) ==
            [via |-> "runCode", code |-> code, errors |-> parsed.errors, evals |-> 0,
             result |-> NilObject, trace |-> <<>>]
        none == [h |-> EmptyHeap, env |-> 0]
        \* after evaluator.Eval(program, env), which left r
        evaluated(parsed, e, r) ==
            LET ran == [unrun(parsed) EXCEPT !.evals = 1, !.result = r.result,
                                             !.trace = r.trace]
                left == [h |-> r.h, env |-> e.env]
                printed == Lines(1, "", r.out)
            IN  IF r.panic # ""
                THEN [ended |-> r.done, run |-> ran,
                      console |-> printed \o PanicExit(r.panic).console,
                      status |-> PanicExit(r.panic).status, heap |-> left]
                ELSE IF r.result # NilObject /\ r.result.type = "ERROR"
                THEN [ended |-> r.done, run |-> ran,
                      console |-> printed \o <<Stderr(Inspect(r.h, r.result) \o "\n")>>,
                      status |-> 1, heap |-> left]
                ELSE [ended |-> r.done, run |-> ran, console |-> printed, status |-> 0,
                      heap |-> left]
        \* after p.ParseProgram(), which gave parsed
        checked(parsed, e) ==
            IF ~parsed.done
            THEN [ended |-> FALSE, run |-> unrun(parsed), console |-> <<>>, status |-> 0,
                  heap |-> none]
            ELSE IF Len(parsed.errors) # 0
            THEN [ended |-> TRUE, run |-> unrun(parsed),
                  console |-> Lines(2, "", parsed.errors), status |-> 1, heap |-> none]
            ELSE IF checkOnly
            THEN [ended |-> TRUE, run |-> unrun(parsed), console |-> <<Stdout("syntax ok\n")>>,
                  status |-> 0, heap |-> none]
            ELSE evaluated(parsed, e, EvalIn(e.h, parsed.program, e.env, order))
    IN  checked(Parse(code), NewEnvironment(EmptyHeap))

\* runFile on the files there are
runFile(files, filename, checkOnly, order) ==
    IF filename \notin DOMAIN files
    THEN [ended |-> TRUE, run |-> NoRun,
          console |-> <<Stderr("error: cant read file " \o filename
                               \o ": open " \o filename \o ": no such file or directory\n")>>,
          status |-> 1, heap |-> [h |-> EmptyHeap, env |-> 0]]
    ELSE runCode(files[filename], checkOnly, order)

\* isBalanced: the loop over the bytes of s from the i-th on
RECURSIVE isBalancedFrom(_, _, _, _, _)
isBalancedFrom(s, i, count, inString, stringChar) ==
    IF i >= Len(s) THEN count <= 0 /\ ~inString
    ELSE LET ch == ByteAt(s, i)
         IN  IF ch \in {"\"", "'"} /\ (i = 0 \/ ByteAt(s, i - 1) # "\\")
             THEN isBalancedFrom(s, i + 1, count,
                                 IF ~inString THEN TRUE
                                 ELSE IF ch = stringChar THEN FALSE ELSE inString,
                                 IF ~inString THEN ch ELSE stringChar)
             ELSE IF inString THEN isBalancedFrom(s, i + 1, count, inString, stringChar)
             ELSE IF ch \in {"{", "(", "["}
             THEN isBalancedFrom(s, i + 1, count + 1, inString, stringChar)
             ELSE IF ch \in {"}", ")", "]"}
             THEN isBalancedFrom(s, i + 1, count - 1, inString, stringChar)
             ELSE isBalancedFrom(s, i + 1, count, inString, stringChar)

isBalanced(s) == isBalancedFrom(s, 0, 0, FALSE, NUL)

(***************************************************************************)
(* The source texts the interpreter is run on.                             *)
(***************************************************************************)
RECURSIVE Join(_, _)
Join(parts, sep) ==
    IF Len(parts) = 0 THEN ""
    ELSE IF Len(parts) = 1 THEN parts[1]
    ELSE parts[1] \o sep \o Join(Tail(parts), sep)

\* the sequences over S of length from to n
SeqsOver(S, from, n) == UNION {[1..len -> S] : len \in from..n}

\* texts with and without diagnostics
SyntaxPrograms ==
    {"1 + 2", "let x = 5; print(x)", "print(1)", "", "let = 5", "1 +", "let x 5; print(1)",
     "print(1; print(2)", "fn (", "if true { print(1) } else", "[1, 2", "print(1) print(2)"}

\* expressions whose value is an Error
ErrorExpressions == {"x", "5 / 0", "len(1, 2)"}

ListLength == 3

\* the statement of a list that has its effect at position i
EffectStatement(i) == CASE i = 1 -> "print(1)" [] i = 2 -> "v = 2" [] OTHER -> "push(a, 3)"

\* a list of statements, the k-th of them failing with e
ErrorList(k, e) ==
    Join([i \in 1..ListLength |-> IF i = k THEN e ELSE EffectStatement(i)], "; ")

ListLevels == {"program", "function", "if", "for", "while"}

\* a program with such a list at the level given
ErrorProgram(level, k, e) ==
    "let v = 0; let a = [0]; " \o
    CASE level = "program" -> ErrorList(k, e)
      [] level = "function" -> "fn f() { " \o ErrorList(k, e) \o " }; f(); print(4)"
      [] level = "if" -> "if true { " \o ErrorList(k, e) \o " }; print(4)"
      [] level = "for" -> "for i in [1, 2] { " \o ErrorList(k, e) \o " } print(4)"
      [] level = "while" -> "while true { " \o ErrorList(k, e) \o " } print(4)"

ErrorPrograms ==
    {ErrorProgram(level, k, e) : level \in ListLevels, k \in 1..ListLength, e \in ErrorExpressions}

MaxNest == 3

Constructs == {"if", "for", "while"}

Nestings == SeqsOver(Constructs, 1, MaxNest)

\* the statement innermost inside the constructs of nest, the outermost first, each
\* followed by a statement of the enclosing block; the loops would run their body
\* twice
RECURSIVE NestedStatement(_, _, _)
NestedStatement(nest, depth, innermost) ==
    IF Len(nest) = 0 THEN innermost
    ELSE LET inner == NestedStatement(Tail(nest), depth + 1, innermost)
             d == Itoa(depth)
         IN  CASE Head(nest) = "if" -> "if true { " \o inner \o " }; print(" \o d \o ")"
               [] Head(nest) = "for" -> "for x in [1, 2] { " \o inner \o " } print(" \o d \o ")"
               [] Head(nest) = "while" ->
                      "let w" \o d \o " = 0; while w" \o d \o " < 2 { w" \o d \o " = w" \o d
                      \o " + 1; " \o inner \o " } print(" \o d \o ")"

NestedReturn(nest, depth) == NestedStatement(nest, depth, "return 7")

ReturnProgram(nest) == "fn f() { " \o NestedReturn(nest, 1) \o " }; let r = f(); print(type(r)); r"

ReturnPrograms == {ReturnProgram(nest) : nest \in Nestings}

\* the same with the if-block of the return as the value of a return statement
ValueReturnProgram(nest) ==
    "fn f() { " \o NestedStatement(nest, 1, "return if true { return 7 }")
    \o " }; let r = f(); print(type(r)); r"

ValueReturnPrograms == {ValueReturnProgram(nest) : nest \in SeqsOver(Constructs, 0, 1)}

\* programs whose top-level statements return
TopLevelReturns ==
    {"return 1", "return", "1; return 2; 3", "if true { return 1 }; 2",
     "for x in [1, 2] { return x } 3", "fn f() { return 5 }; return f()",
     "return if false { 1 } else { 2 }", "return if true { return 1 }",
     "return if false { 1 } else { return 2 }", "let y = if true { return 4 }; 5"}

MaxCalls == 3

\* two closures a and b of the same outer function, called in the order of calls
CounterProgram(calls) ==
    "fn mk() { let c = 0; fn() { c = c + 1; c } }; let a = mk(); let b = mk(); "
    \o Join([i \in 1..Len(calls) |-> "print(" \o calls[i] \o "())"], "; ")

CounterPrograms == {CounterProgram(calls) : calls \in SeqsOver({"a", "b"}, 1, MaxCalls)}

MaxArgs == 2

\* the ways to write the i-th argument of a call: by position or by a name
ArgumentForms == {"", "p", "q", "r", "z"}

Argument(form, i) == IF form = "" THEN Itoa(i) ELSE form \o " = " \o Itoa(i)

\* a call of a function of three parameters, the second with a default
BindingProgram(forms) ==
    "fn f(p, q = 10, r) { [p, q, r] }; f("
    \o Join([i \in 1..Len(forms) |-> Argument(forms[i], i)], ", ") \o ")"

GreetPrograms ==
    {"fn greet(name, loud = false) { [name, loud] }; greet(\"a\")",
     "fn greet(name, loud = false) { [name, loud] }; greet(\"a\", loud = true)",
     "fn greet(name, loud = false) { [name, loud] }; greet(loud = true, name = \"a\")"}

BindingPrograms ==
    {BindingProgram(forms) : forms \in SeqsOver(ArgumentForms, 0, MaxArgs)} \cup GreetPrograms

Programs ==
    SyntaxPrograms \cup ErrorPrograms \cup ReturnPrograms \cup ValueReturnPrograms
    \cup TopLevelReturns
    \cup CounterPrograms \cup BindingPrograms

\* what is typed at the prompt, line by line
Sessions ==
    {<<>>, <<"exit">>, <<"quit", "1">>, <<"let x = 1", "x + 1">>, <<"x">>, <<"let = 5", "1">>,
     <<"fn f() {", "return 1", "}", "f()">>, <<"1 +", "2">>, <<"5 / 0", "2">>,
     <<"let a = [1]", "push(a, 2)", "a[-1]">>, <<"print(\"{\")", "exit">>, <<"[1,", "2]">>,
     <<"return if true { return 1 }">>, <<"fn (", "exit">>, <<"if true {", "exit", "}">>,
     <<"null", "print(1)">>}

(***************************************************************************)
(* The process: main, and the loop of Start.                               *)
(***************************************************************************)
CommandLine(help, version, e, f, args, check) ==
    [help |-> help, version |-> version, e |-> e, f |-> f, args |-> args, check |-> check]

\* the texts that are also run from a file
FilePrograms == {"print(1)", "let = 5", "1 / 0", "return if true { return 1 }"}

NoFiles == <<>>

NoHeap == [h |-> EmptyHeap, env |-> 0]

Init ==
    /\ pc = "main"
    /\ buffer = [text |-> "", inMultiline |-> FALSE]
    /\ run = NoRun
    /\ console = <<>>
    /\ status = -1
    /\ \/ /\ argv \in {CommandLine(FALSE, FALSE, code, "", <<>>, check) :
                          code \in Programs \ {""}, check \in BOOLEAN}
          /\ stdin = <<>>
          /\ world = [files |-> NoFiles, h |-> EmptyHeap, env |-> 0]
       \/ /\ argv \in {CommandLine(FALSE, FALSE, "", "main.pearl", <<>>, check) : check \in BOOLEAN}
                      \cup {CommandLine(FALSE, FALSE, "", "", <<"main.pearl", "x">>, FALSE)}
          /\ stdin = <<>>
          /\ \E code \in FilePrograms :
                world \in {[files |-> [name \in {"main.pearl"} |-> code], h |-> EmptyHeap, env |-> 0],
                           [files |-> NoFiles, h |-> EmptyHeap, env |-> 0]}
       \/ /\ argv \in {CommandLine(TRUE, version, "1", "", <<>>, FALSE) : version \in BOOLEAN}
                      \cup {CommandLine(FALSE, TRUE, "1", "", <<>>, FALSE)}
          /\ stdin = <<>>
          /\ world = [files |-> NoFiles, h |-> EmptyHeap, env |-> 0]
       \/ /\ argv \in {CommandLine(FALSE, FALSE, "", "", <<>>, check) : check \in BOOLEAN}
          /\ stdin \in Sessions \cup {<<code>> : code \in SyntaxPrograms}
          /\ world = [files |-> NoFiles, h |-> EmptyHeap, env |-> 0]

\* the process exits with the status given, or with 0 when main returns
Exit(outcome) ==
    /\ outcome.ended
    /\ pc' = "exit"
    /\ status' = outcome.status
    /\ console' = console \o outcome.console
    /\ run' = outcome.run
    /\ world' = [world EXCEPT !.h = outcome.heap.h, !.env = outcome.heap.env]
    /\ UNCHANGED <<argv, stdin, buffer>>

\* main up to its return, to the exit of the process or, when it calls Start,
\* to the first read of a line
main ==
    /\ pc = "main"
    /\ \E order \in MapOrders :
          LET filename == IF argv.f = "" /\ Len(argv.args) > 0 THEN argv.args[1] ELSE argv.f
              e == NewEnvironment(EmptyHeap)
          IN  IF argv.help
              THEN Exit([ended |-> TRUE, run |-> NoRun, console |-> Usage, status |-> 0,
                         heap |-> NoHeap])
              ELSE IF argv.version
              THEN Exit([ended |-> TRUE, run |-> NoRun, console |-> <<Stdout("Pearl 0.1.0\n")>>,
                         status |-> 0, heap |-> NoHeap])
              ELSE IF argv.e # "" THEN Exit(runCode(argv.e, argv.check, order))
              ELSE IF filename # "" THEN Exit(runFile(world.files, filename, argv.check, order))
              ELSE /\ pc' = "Start"
                   /\ world' = [world EXCEPT !.h = e.h, !.env = e.env]
                   /\ console' = console \o <<Stdout(LOGO), Stdout("Pearl - A better Perl\n"),
                                              Stdout("Type 'exit' or Ctrl+D to quit\n"),
                                              Stdout("\n")>>
                   /\ UNCHANGED <<argv, stdin, buffer, run, status>>

\* one turn of the loop of Start: from the prompt to the next prompt or to the
\* return of Start, with which main returns
Start ==
    /\ pc = "Start"
    /\ \E order \in MapOrders :
          LET prompt == Stdout(IF buffer.inMultiline THEN "...    " ELSE PROMPT)
              text == IF buffer.inMultiline THEN buffer.text \o "\n" \o Head(stdin)
                      ELSE Head(stdin)
              unrun(parsed) ==
                  [via |-> "Start", code |-> text, errors |-> parsed.errors, evals |-> 0,
                   result |-> NilObject, trace |-> <<>>]
              echo(r) == IF r.result # NilObject /\ r.result.type # "NULL"
                         THEN <<Stdout(Inspect(r.h, r.result) \o "\n")>>
                         ELSE <<>>
          IN  IF Len(stdin) = 0
              THEN /\ pc' = "exit"
                   /\ status' = 0
                   /\ console' = console \o <<prompt, Stdout("\nbye!\n")>>
                   /\ UNCHANGED <<argv, stdin, buffer, world, run>>
              ELSE IF ~buffer.inMultiline /\ Head(stdin) \in {"exit", "quit"}
              THEN /\ pc' = "exit"
                   /\ status' = 0
                   /\ stdin' = Tail(stdin)
                   /\ console' = console \o <<prompt, Stdout("bye!\n")>>
                   /\ UNCHANGED <<argv, buffer, world, run>>
              ELSE IF ~isBalanced(text)
              THEN /\ buffer' = [text |-> text, inMultiline |-> TRUE]
                   /\ stdin' = Tail(stdin)
                   /\ console' = console \o <<prompt>>
                   /\ UNCHANGED <<pc, argv, world, run, status>>
              ELSE \E parsed \in {Parse(text)} :
                   /\ parsed.done
                   /\ buffer' = [text |-> "", inMultiline |-> FALSE]
                   /\ stdin' = Tail(stdin)
                   /\ IF Len(parsed.errors) # 0
                      THEN /\ run' = unrun(parsed)
                           /\ console' = console \o <<prompt>> \o Lines(1, "  ", parsed.errors)
                           /\ UNCHANGED <<pc, argv, world, status>>
                      ELSE \E r \in {EvalIn(world.h, parsed.program, world.env, order)} :
                           /\ r.done
                           /\ run' = [unrun(parsed) EXCEPT !.evals = 1, !.result = r.result,
                                                           !.trace = r.trace]
                           /\ world' = [world EXCEPT !.h = r.h]
                           /\ IF r.panic # ""
                              THEN /\ pc' = "exit"
                                   /\ status' = PanicExit(r.panic).status
                                   /\ console' = console \o <<prompt>> \o Lines(1, "", r.out)
                                                 \o PanicExit(r.panic).console
                                   /\ UNCHANGED argv
                              ELSE /\ console' = console \o <<prompt>> \o Lines(1, "", r.out)
                                                 \o echo(r)
                                   /\ UNCHANGED <<pc, argv, status>>

Next == main \/ Start

Spec == Init /\ [][Next]_vars

(***************************************************************************)
(* Properties of the process.                                              *)
(***************************************************************************)
\* the texts written to standard output, in their order
Printed ==
    LET written == SelectSeq(console, LAMBDA entry : entry.fd = 1)
    IN  [i \in 1..Len(written) |-> written[i].text]

\* the value bound to name in the top-level Environment of the run
Global(name) == EnvGet(world.h, world.env, name).val

\* C1: Eval is called on a parsed program only when the parser has no diagnostic,
\* in runCode and in the loop of Start alike: a text with a diagnostic is never
\* evaluated (runCode leaves the heap empty), and runCode with -check (checkOnly)
\* calls Eval on no text, not even on one without diagnostics.
C1_EvalOnlyWithoutDiagnostics ==
    /\ run.evals > 0 => run.errors = <<>>
    /\ run.evals > 0 /\ run.via = "runCode" => ~argv.check
    /\ run.via = "runCode" /\ (run.errors # <<>> \/ argv.check) =>
          world.h = EmptyHeap /\ run.trace = <<>>

\* runCode has handled a text with a diagnostic
C1_Witness == pc = "exit" /\ run.via = "runCode" /\ run.errors # <<>> /\ ~argv.check

\* C2: evalProgram and evalBlockStatement stop at the first statement whose result
\* is an Error: the Error is what they return, and no later statement of the list
\* is evaluated; in the programs of ErrorPrograms, whose k-th statement fails, the
\* effects of the statements before it are there and those of the later ones not.
C2_StopAtFirstError ==
    /\ \A i \in 1..Len(run.trace) :
          run.trace[i].ev = "result" /\ run.trace[i].val.type = "ERROR" =>
             /\ i < Len(run.trace)
             /\ run.trace[i + 1].ev \in {"program", "block"}
             /\ run.trace[i + 1].id = run.trace[i].id
             /\ run.trace[i + 1].val = run.trace[i].val
             /\ \A j \in (i + 1)..Len(run.trace) :
                   ~(run.trace[j].ev = "stmt" /\ run.trace[j].id = run.trace[i].id)
    /\ \A level \in ListLevels, k \in 1..ListLength, e \in ErrorExpressions :
          run.code = ErrorProgram(level, k, e) /\ run.evals = 1 =>
             /\ run.result.type = "ERROR"
             /\ Printed = IF k > 1 THEN <<"1\n">> ELSE <<>>
             /\ Global("v") = IntegerObject(I64(IF k > 2 THEN 2 ELSE 0))
             /\ Elements(world.h, Global("a")) =
                   <<IntegerObject(I64Zero)>>
                   \o [i \in 1..(IF k > 3 THEN k - 3 ELSE 0) |-> IntegerObject(I64(3))]

\* a list whose first statement failed, with two more statements after it
C2_Witness ==
    /\ run.evals = 1
    /\ \E level \in ListLevels, e \in ErrorExpressions : run.code = ErrorProgram(level, 1, e)
    /\ \E i \in 1..Len(run.trace) : run.trace[i].ev = "block" /\ run.trace[i].val.type = "ERROR"

\* in the run of one of the programs, every return executed ends the application
\* it is in: between the return and the end of the application no statement and
\* no loop iteration is begun, and the caller receives the value returned, not a
\* ReturnValue
ReturnEndsApplication(programs) ==
    run.code \in programs /\ run.evals = 1 =>
       /\ \E i \in 1..Len(run.trace) : run.trace[i].ev = "return"
       /\ \A i \in 1..Len(run.trace) :
             run.trace[i].ev = "return" =>
                /\ run.trace[i].app # 0
                /\ \E j \in (i + 1)..Len(run.trace) :
                      /\ run.trace[j].ev = "applied"
                      /\ run.trace[j].id = run.trace[i].app
                      /\ run.trace[j].val = run.trace[i].val
                      /\ run.trace[j].val.type # "RETURN_VALUE"
                      /\ \A n \in (i + 1)..(j - 1) : run.trace[n].ev \notin {"stmt", "iter"}
       /\ run.result = IntegerObject(I64(7))
       /\ Printed = <<"INTEGER\n">>

\* C3: a return executed inside any nesting of if-blocks, for-loops and while-loops
\* in a function body ends the application with the value returned, and the caller
\* receives that value, not a ReturnValue: the nestings up to MaxNest deep, the
\* if-block standing as a statement or as the value of a return statement.
C3_ReturnEndsApplication == ReturnEndsApplication(ReturnPrograms \cup ValueReturnPrograms)

\* C3 of the nestings whose constructs all stand as statements
C3_ReturnEndsApplicationOfStatements == ReturnEndsApplication(ReturnPrograms)

\* a return inside a loop in a loop has been executed
C3_Witness ==
    /\ run.evals = 1
    /\ run.code = ReturnProgram(<<"for", "while">>)
    /\ \E i \in 1..Len(run.trace) : run.trace[i].ev = "return"

\* C4: what Eval returns for a Program is never a ReturnValue.
C4_ResultNeverReturnValue == run.evals = 1 => run.result.type # "RETURN_VALUE"

\* the event with which the application of the i-th event of the trace began
ApplyOf(i) ==
    run.trace[CHOOSE j \in 1..i : run.trace[j].ev = "apply" /\ run.trace[j].id = run.trace[i].id]

\* C5: every application of a user function evaluates the body in an Environment
\* that did not exist when the application began and whose outer Environment is
\* the one the function captured, and no two applications share one; so the two
\* closures of CounterProgram count apart: each call prints how often that closure
\* has been called, whatever the order of the calls.
C5_FreshEnvironmentPerApplication ==
    /\ \A i \in 1..Len(run.trace) :
          run.trace[i].ev = "body" =>
             /\ \E j \in 1..i : run.trace[j].ev = "apply" /\ run.trace[j].id = run.trace[i].id
             /\ run.trace[i].index > ApplyOf(i).index
             /\ run.trace[i].val.outer = ApplyOf(i).val.function.Env
             /\ \A j \in 1..Len(run.trace) :
                   run.trace[j].ev = "body" /\ j # i => run.trace[j].index # run.trace[i].index
    /\ \A calls \in SeqsOver({"a", "b"}, 1, MaxCalls) :
          run.code = CounterProgram(calls) /\ run.evals = 1 =>
             Printed = [i \in 1..Len(calls) |->
                           Itoa(Cardinality({j \in 1..i : calls[j] = calls[i]})) \o "\n"]

\* the two closures have been called in turn
C5_Witness == run.evals = 1 /\ run.code = CounterProgram(<<"a", "b", "a">>)

\* the value of a literal
LiteralValue(node) ==
    CASE node.kind = "IntegerLiteral" -> IntegerObject(node.Value)
      [] node.kind = "Boolean" -> nativeBoolToBooleanObject(node.Value)
      [] node.kind = "NullLiteral" -> NULL

\* the values the k-th parameter may be bound to in the application that began
\* with the event call, by the rule of C6
BindingsAllowed(call, k) ==
    LET params == call.function.Parameters
        args == call.args
        nameOf == [i \in 1..Len(args) |->
                      IF i <= Len(call.callArgs) THEN call.callArgs[i].Name ELSE ""]
        byName(n) == {i \in 1..Len(args) : nameOf[i] = params[n].Name}
        positional == {i \in 1..Len(args) : nameOf[i] = ""}
        before == Cardinality({n \in 1..(k - 1) : byName(n) = {}})
    IN  IF byName(k) # {} THEN {args[i] : i \in byName(k)}
        ELSE IF before < Cardinality(positional)
        THEN {args[i] : i \in {p \in positional :
                                  Cardinality({q \in positional : q < p}) = before}}
        ELSE IF params[k].Default # NIL THEN {LiteralValue(params[k].Default)}
        ELSE {NULL}

\* C6: on every call of a user function each parameter is bound to the argument
\* passed by its name if there is one, otherwise to the next positional argument
\* not yet used, otherwise to its default, otherwise to Null (the defaults here
\* are literals); greet("a"), greet("a", loud = true) and greet(loud = true,
\* name = "a") bind name to "a" and loud to false, true and true.
C6_ParameterBinding ==
    /\ \A i \in 1..Len(run.trace) :
          run.trace[i].ev = "body" =>
             \A k \in 1..Len(ApplyOf(i).val.function.Parameters) :
                LET param == ApplyOf(i).val.function.Parameters[k]
                IN  /\ param.Name \in DOMAIN run.trace[i].val.store
                    /\ run.trace[i].val.store[param.Name] \in BindingsAllowed(ApplyOf(i).val, k)
    /\ run.evals = 1 /\ run.code \in GreetPrograms =>
          \E i \in 1..Len(run.trace) :
             /\ run.trace[i].ev = "body"
             /\ run.trace[i].val.store["name"] = StringObject("a")
             /\ run.trace[i].val.store["loud"] =
                   nativeBoolToBooleanObject(Len(ApplyOf(i).val.args) = 2)

\* f(1, p = 2): p is bound by name, and the positional argument goes to q
C6_Witness ==
    /\ run.evals = 1
    /\ run.code = BindingProgram(<<"", "p">>)
    /\ \E i \in 1..Len(run.trace) :
          /\ run.trace[i].ev = "body"
          /\ run.trace[i].val.store["p"] = IntegerObject(I64(2))
          /\ run.trace[i].val.store["q"] = IntegerObject(I64(1))

(***************************************************************************)
(* A piped call and the call it stands for, each run by runCode on its own *)
(* (two runs of pearl -e): argv holds the two texts, and run, world,       *)
(* console and status what each of the runs left.                          *)
(***************************************************************************)
PipePrelude ==
    "fn f2(x, y) { [x, y] }; fn g(p, x) { [p, x] }; fn one(x) { x + 1 }; let arr = [1]; "

\* the callees: functions of the prelude and builtins
Callees == {"f2", "g", "one", "len", "str", "type", "push", "print"}

\* what is piped
PipedValues == {"1", "arr", "\"s\"", "x0", "push(arr, 5)"}

\* the explicit arguments of the call
ExplicitArguments == {<<>>, <<"2">>, <<"p = 2">>, <<"x = 2">>, <<"y0">>, <<"push(arr, 7)">>,
                      <<"2", "p = 3">>}

\* a |> f(rest), or a |> f when bare
PipedCall(callee, a, rest, bare) ==
    PipePrelude \o a \o " |> " \o callee \o (IF bare THEN "" ELSE "(" \o Join(rest, ", ") \o ")")

\* f(a, rest)
PlainCall(callee, a, rest) == PipePrelude \o callee \o "(" \o Join(<<a>> \o rest, ", ") \o ")"

InitPipe ==
    /\ pc = "pipe"
    /\ \E callee \in Callees, a \in PipedValues, rest \in ExplicitArguments, bare \in BOOLEAN :
          /\ bare => rest = <<>>
          /\ argv = [piped |-> PipedCall(callee, a, rest, bare),
                     called |-> PlainCall(callee, a, rest)]
    /\ stdin = <<>>
    /\ buffer = [text |-> "", inMultiline |-> FALSE]
    /\ run = [side \in {"piped", "called"} |-> NoRun]
    /\ world = [side \in {"piped", "called"} |-> NoHeap]
    /\ console = [side \in {"piped", "called"} |-> <<>>]
    /\ status = [side \in {"piped", "called"} |-> -1]

\* one of the two texts is run
runSide ==
    /\ pc = "pipe"
    /\ \E side \in {"piped", "called"}, order \in MapOrders :
          \E outcome \in {runCode(argv[side], FALSE, order)} :
              /\ status[side] = -1
              /\ outcome.ended
              /\ run' = [run EXCEPT ![side] = outcome.run]
              /\ world' = [world EXCEPT ![side] = outcome.heap]
              /\ console' = [console EXCEPT ![side] = outcome.console]
              /\ status' = [status EXCEPT ![side] = outcome.status]
              /\ UNCHANGED <<pc, argv, stdin, buffer>>

NextPipe == runSide

SpecPipe == InitPipe /\ [][NextPipe]_vars

\* what is seen of a run: the result and its type, the writes, the exit status, and
\* the display form of every binding of the top-level Environment
Observed(side) ==
    [type |-> run[side].result.type,
     result |-> IF run[side].result = NilObject THEN "" ELSE Inspect(world[side].h, run[side].result),
     console |-> console[side],
     status |-> status[side],
     globals |-> [name \in DOMAIN world[side].h.envs[world[side].env].store |->
                     Inspect(world[side].h, world[side].h.envs[world[side].env].store[name])]]

\* C7: a |> f(b) has the result and the effects of f(a, b), and a |> f those of
\* f(a), for the callees, piped values and explicit arguments above, the explicit
\* arguments written by name among them.
C7_PipeIsCall ==
    run["piped"].evals = 1 /\ run["called"].evals = 1 => Observed("piped") = Observed("called")

(***************************************************************************)
(* Operator precedence: the parser alone, on expressions of two operators  *)
(***************************************************************************)

\* the binary operators of the precedences table, as written in a source text
BinaryOperators ==
    <<"=", "|>", "or", "and", "==", "!=", "<", ">", "<=", ">=", "~", "!~", "..",
      "+", "-", "++", "*", "/", "%">>

\* the prefix operators New registers parsePrefixExpression for
PrefixOperators == <<"-", "!", "not">>

\* the token type of an operator
OperatorType(op) == IF op = "or" THEN "OR" ELSE IF op = "and" THEN "AND" ELSE op

IsMatch(op) == op \in {"~", "!~"}

\* the n-th operand of a text: an identifier, or a regex literal to the right of a
\* match operator
OperandText(n, before) == IF IsMatch(before) THEN "/x/" ELSE <<"a", "b", "c">>[n]

OperandNode(n, before) ==
    IF IsMatch(before) THEN [kind |-> "RegexLiteral", Pattern |-> "x"]
    ELSE [kind |-> "Identifier", Value |-> <<"a", "b", "c">>[n]]

\* a op1 b op2 c
TwoOperators(op1, op2) ==
    Join(<<OperandText(1, ""), op1, OperandText(2, op1), op2, OperandText(3, op2)>>, " ")

\* pre a op b
PrefixThenOperator(pre, op) ==
    pre \o " " \o Join(<<OperandText(1, ""), op, OperandText(2, op)>>, " ")

PipeChain == "x |> f() |> g()"

OperatorIndexes == 1..Len(BinaryOperators)

PrecedenceTexts ==
    {TwoOperators(BinaryOperators[i], BinaryOperators[j]) : i, j \in OperatorIndexes}
    \cup {PrefixThenOperator(PrefixOperators[i], BinaryOperators[j]) :
             i \in 1..Len(PrefixOperators), j \in OperatorIndexes}
    \cup {PipeChain}

InitParse ==
    /\ pc = "parse"
    /\ argv \in PrecedenceTexts
    /\ stdin = <<>>
    /\ buffer = [text |-> "", inMultiline |-> FALSE]
    /\ run = NoRun
    /\ world = NoHeap
    /\ console = <<>>
    /\ status = -1

\* lexer.New, parser.New and ParseProgram on the text
parseSource ==
    /\ pc = "parse"
    /\ \E parsed \in {Parse(argv)} :
           /\ parsed.done
           /\ run' = [NoRun EXCEPT !.via = "ParseProgram", !.code = argv,
                                   !.errors = parsed.errors, !.result = parsed.program]
    /\ pc' = "parsed"
    /\ UNCHANGED <<argv, stdin, buffer, world, console, status>>

NextParse == parseSource

SpecParse == InitParse /\ [][NextParse]_vars

\* the node an operator makes of its two operands
Binary(op, left, right) ==
    CASE op = "="  -> [kind |-> "AssignExpression", Name |-> left, Value |-> right]
      [] op = "|>" -> [kind |-> "PipeExpression", Left |-> left, Right |-> right]
      [] op = ".." -> [kind |-> "RangeLiteral", Start |-> left, End |-> right]
      [] OTHER     -> [kind |-> "InfixExpression", Operator |-> op, Left |-> left,
                       Right |-> right]

BindsFirst(op1, op2) ==
    Binary(op2, Binary(op1, OperandNode(1, ""), OperandNode(2, op1)), OperandNode(3, op2))

BindsSecond(op1, op2) ==
    Binary(op1, OperandNode(1, ""), Binary(op2, OperandNode(2, op1), OperandNode(3, op2)))

Level(op) == precedences[OperatorType(op)]

\* the tree of a op1 b op2 c by the table alone: the strictly higher operator binds
\* first, equal precedence groups to the left
ByTable(op1, op2) ==
    IF Level(op2) > Level(op1) THEN BindsSecond(op1, op2) ELSE BindsFirst(op1, op2)

\* the same, but = takes everything to its right as its value and the right operand
\* of a match operator is its regex literal alone
ByTableButAssignAndMatch(op1, op2) ==
    IF op1 = "=" THEN BindsSecond(op1, op2)
    ELSE IF IsMatch(op1) THEN BindsFirst(op1, op2)
    ELSE ByTable(op1, op2)

CallOf(name) ==
    [kind |-> "CallExpression", Function |-> [kind |-> "Identifier", Value |-> name],
     Arguments |-> <<>>]

\* the program of a single expression statement
OneExpression(tree) ==
    [kind |-> "Program",
     Statements |-> <<[kind |-> "ExpressionStatement", Expression |-> tree]>>]

ParsedAs(text, tree) ==
    run.code = text => run.errors = <<>> /\ run.result = OneExpression(tree)

\* a prefix operator binds tighter than every binary operator, and the pipe chain
\* groups to the left
PrefixAndChain ==
    /\ \A i \in 1..Len(PrefixOperators), j \in OperatorIndexes :
          ParsedAs(PrefixThenOperator(PrefixOperators[i], BinaryOperators[j]),
                   Binary(BinaryOperators[j],
                          [kind |-> "PrefixExpression", Operator |-> PrefixOperators[i],
                           Right |-> OperandNode(1, "")],
                          OperandNode(2, BinaryOperators[j])))
    /\ ParsedAs(PipeChain,
                Binary("|>", Binary("|>", [kind |-> "Identifier", Value |-> "x"], CallOf("f")),
                       CallOf("g")))

\* C8 as stated: of any two adjacent infix operators the one of strictly higher
\* precedence binds its operands first and equal precedence groups to the left, a
\* prefix operator binds tighter than every binary operator, and x |> f() |> g() is
\* Pipe(Pipe(x, f()), g())
C8_TreeByPrecedenceTable ==
    pc = "parsed" =>
        /\ \A i, j \in OperatorIndexes :
              ParsedAs(TwoOperators(BinaryOperators[i], BinaryOperators[j]),
                       ByTable(BinaryOperators[i], BinaryOperators[j]))
        /\ PrefixAndChain

\* C8, amended: the same for every first operator but =, ~ and !~; a = b op c is
\* Assign(a, b op c) for every op, = included, and a ~ /x/ op c is (a ~ /x/) op c
\* for every op, the higher ones included
C8_TreeByPrecedenceTableButAssignAndMatch ==
    pc = "parsed" =>
        /\ \A i, j \in OperatorIndexes :
              ParsedAs(TwoOperators(BinaryOperators[i], BinaryOperators[j]),
                       ByTableButAssignAndMatch(BinaryOperators[i], BinaryOperators[j]))
        /\ PrefixAndChain

\* a + b * c has been parsed, and its product is the right operand of its sum
C8_Witness ==
    /\ pc = "parsed"
    /\ run.code = TwoOperators("+", "*")
    /\ run.errors = <<>>
    /\ run.result.Statements[1].Expression.Operator = "+"
    /\ run.result.Statements[1].Expression.Right.Operator = "*"

(***************************************************************************)
(* Integer arithmetic: pearl -e on one operation of two Integer operands   *)
(***************************************************************************)

\* one expression is run
runExpression ==
    /\ pc = "expression"
    /\ \E order \in MapOrders :
          \E outcome \in {runCode(argv.code, FALSE, order)} :
              /\ outcome.ended
              /\ run' = outcome.run
              /\ world' = outcome.heap
              /\ console' = outcome.console
              /\ status' = outcome.status
    /\ pc' = "ran"
    /\ UNCHANGED <<argv, stdin, buffer>>

ArithmeticOperators == {"+", "-", "*", "/", "%"}

TwoTo32 == <<0, 0, 0, 0, 1, 0, 0, 0>>

\* the operands: small ones, and the ends of int64 written as the language allows
SmallOperands == {-7, -2, -1, 0, 1, 2, 3, 7}

IntegerOperands ==
    {[text |-> IF n < 0 THEN "(-" \o Itoa(-n) \o ")" ELSE Itoa(n), value |-> I64(n)] :
        n \in SmallOperands}
    \cup {[text |-> "9223372036854775807", value |-> MaxInt64],
          [text |-> "(-9223372036854775807 - 1)", value |-> MinInt64],
          [text |-> "(-9223372036854775807)", value |-> <<1, 0, 0, 0, 0, 0, 0, 128>>],
          [text |-> "4294967296", value |-> TwoTo32]}

InitArith ==
    /\ pc = "expression"
    /\ \E operator \in ArithmeticOperators, left, right \in IntegerOperands :
          argv = [code |-> Join(<<left.text, operator, right.text>>, " "),
                  operator |-> operator, left |-> left.value, right |-> right.value]
    /\ stdin = <<>>
    /\ buffer = [text |-> "", inMultiline |-> FALSE]
    /\ run = NoRun
    /\ world = NoHeap
    /\ console = <<>>
    /\ status = -1

NextArith == runExpression

SpecArith == InitArith /\ [][NextArith]_vars

IsSmall(a) == \E n \in SmallOperands : a = I64(n)

Magnitude(n) == IF n < 0 THEN -n ELSE n

\* x / y rounded toward zero, y # 0
Truncated(x, y) ==
    IF (x < 0) = (y < 0) THEN Magnitude(x) \div Magnitude(y)
    ELSE -(Magnitude(x) \div Magnitude(y))

\* the operation on mathematical integers
Exact(operator, x, y) ==
    CASE operator = "+" -> x + y
      [] operator = "-" -> x - y
      [] operator = "*" -> x * y
      [] operator = "/" -> Truncated(x, y)
      [] operator = "%" -> x - y * Truncated(x, y)

\* results at the ends of int64: <<operator, left, right, result>>
WrapAround ==
    {<<"+", MaxInt64, I64One, MinInt64>>,
     <<"+", MaxInt64, MaxInt64, I64(-2)>>,
     <<"+", MinInt64, MinInt64, I64Zero>>,
     <<"+", MinInt64, I64MinusOne, MaxInt64>>,
     <<"-", MinInt64, I64One, MaxInt64>>,
     <<"-", MaxInt64, I64MinusOne, MinInt64>>,
     <<"-", I64Zero, MinInt64, MinInt64>>,
     <<"*", MaxInt64, I64(2), I64(-2)>>,
     <<"*", MaxInt64, MaxInt64, I64One>>,
     <<"*", MinInt64, I64MinusOne, MinInt64>>,
     <<"*", MinInt64, I64(2), I64Zero>>,
     <<"*", TwoTo32, TwoTo32, I64Zero>>,
     <<"/", MinInt64, I64MinusOne, MinInt64>>,
     <<"/", MinInt64, I64(2), <<0, 0, 0, 0, 0, 0, 0, 192>>>>,
     <<"/", MaxInt64, TwoTo32, <<255, 255, 255, 127, 0, 0, 0, 0>>>>,
     <<"/", I64(7), MaxInt64, I64Zero>>,
     <<"%", MinInt64, I64MinusOne, I64Zero>>,
     <<"%", MaxInt64, I64(2), I64One>>,
     <<"%", MinInt64, I64(7), I64MinusOne>>,
     <<"%", I64(-7), MinInt64, I64(-7)>>}

\* C9: Integer + - * wrap around in 64 bits and give no error, / rounds toward
\* zero (7 / 2 is 3), and / or % by zero gives an Error whatever the left operand,
\* never a crash
C9_IntegerArithmetic ==
    pc = "ran" /\ run.via = "runCode" /\ argv.operator \in ArithmeticOperators =>
        LET r == run.result
            byZero == argv.operator \in {"/", "%"} /\ argv.right = I64Zero
        IN  /\ run.errors = <<>> /\ run.evals = 1
            /\ status # PanicExit("").status
            /\ byZero => r.type = "ERROR" /\ r.Message = "division by zero"
            /\ ~byZero => r.type = "INTEGER"
            /\ ~byZero /\ IsSmall(argv.left) /\ IsSmall(argv.right) =>
                  r.Value = I64(Exact(argv.operator, I64ToInt(argv.left),
                                      I64ToInt(argv.right)))
            /\ \A w \in WrapAround :
                  <<argv.operator, argv.left, argv.right>> = <<w[1], w[2], w[3]>> =>
                      r.Value = w[4]
            /\ argv.code = "7 / 2" => r.Value = I64(3)

\* the least int64 has been divided by zero, and the run has ended with an Error
C9_Witness ==
    /\ pc = "ran"
    /\ argv.operator = "/" /\ argv.left = MinInt64 /\ argv.right = I64Zero
    /\ run.evals = 1
    /\ run.result.type = "ERROR"
    /\ status = 1

(***************************************************************************)
(* Index reads: pearl -e on x[i] for an Array, a String or a Map x         *)
(***************************************************************************)
MaxLength == 3

\* the Array literal of n elements 10, 20, ... and the String of the first n letters
ArrayText(n) == "[" \o Join([i \in 1..n |-> Itoa(10 * i)], ", ") \o "]"

Letters == <<"a", "b", "c", "d", "e", "f", "g", "h">>

StringValue(n) == Join([i \in 1..n |-> Letters[i]], "")

\* the indices: around the ends of the longest collection, and the ends of int64
NearIndexes == (0 - MaxLength - 2)..(MaxLength + 2)

IndexText(n) == IF n < 0 THEN "-" \o Itoa(-n) ELSE Itoa(n)

Indexes ==
    {[text |-> IndexText(n), far |-> FALSE, n |-> n] : n \in NearIndexes}
    \cup {[text |-> "9223372036854775807", far |-> TRUE, n |-> 0],
          [text |-> "(-9223372036854775807 - 1)", far |-> TRUE, n |-> 0]}

\* the Maps, as their literal and the keys it holds with the value of each
MapLiterals ==
    {[text |-> "{}", keys |-> <<>>],
     [text |-> "{\"a\": 1}", keys |-> <<[text |-> "\"a\"", value |-> 1]>>],
     [text |-> "{\"a\": 1, 2: 3, true: 4}",
      keys |-> <<[text |-> "\"a\"", value |-> 1], [text |-> "2", value |-> 3],
                 [text |-> "true", value |-> 4]>>]}

\* hashable keys: a String, an Integer and a Boolean the Maps may hold, and ones
\* they never hold
KeyTexts == {"\"a\"", "2", "true", "\"b\"", "5", "false", "\"2\"", "\"true\"", "1"}

IndexRead(collection, index) == "let x = " \o collection \o "; x[" \o index \o "]"

InitIndex ==
    /\ pc = "expression"
    /\ \/ \E kind \in {"ARRAY", "STRING"}, n \in 0..MaxLength, i \in Indexes :
             argv = [code |-> IndexRead(IF kind = "ARRAY" THEN ArrayText(n)
                                        ELSE "\"" \o StringValue(n) \o "\"", i.text),
                     kind |-> kind, length |-> n, index |-> i, keys |-> <<>>, key |-> ""]
       \/ \E map \in MapLiterals, key \in KeyTexts :
             argv = [code |-> IndexRead(map.text, key),
                     kind |-> "MAP", length |-> Len(map.keys),
                     index |-> [text |-> key, far |-> FALSE, n |-> 0],
                     keys |-> map.keys, key |-> key]
    /\ stdin = <<>>
    /\ buffer = [text |-> "", inMultiline |-> FALSE]
    /\ run = NoRun
    /\ world = NoHeap
    /\ console = <<>>
    /\ status = -1

NextIndex == runExpression

SpecIndex == InitIndex /\ [][NextIndex]_vars

\* the position of the element x[i] reads, counted from 0; -1 when there is none
Position(length, index) ==
    IF index.far THEN -1
    ELSE IF 0 - length <= index.n /\ index.n < 0 THEN length + index.n
    ELSE IF 0 <= index.n /\ index.n < length THEN index.n
    ELSE -1

\* the element of the n-element Array or String at position p
ElementAt(kind, p) ==
    IF kind = "ARRAY" THEN IntegerObject(I64(10 * (p + 1))) ELSE StringObject(Letters[p + 1])

\* C10: x[i] for an Array or String x and an Integer i is the element at i when
\* 0 <= i < len, the element at len + i when -len <= i < 0 and Null for every other
\* i, the empty collection included; a Map read at an absent hashable key is Null;
\* none of these reads gives an Error or ends the run out of band
C10_IndexReads ==
    pc = "ran" /\ run.via = "runCode" /\ argv.kind \in {"ARRAY", "STRING", "MAP"} =>
        LET r == run.result
            p == Position(argv.length, argv.index)
            absent == \A k \in 1..Len(argv.keys) : argv.keys[k].text # argv.key
        IN  /\ run.errors = <<>> /\ run.evals = 1
            /\ argv.kind \in {"ARRAY", "STRING"} \/ absent =>
                  /\ status = 0
                  /\ r # NilObject /\ r.type # "ERROR"
            /\ argv.kind \in {"ARRAY", "STRING"} =>
                  r = IF p = -1 THEN NULL ELSE ElementAt(argv.kind, p)
            /\ argv.kind = "MAP" /\ absent => r = NULL

\* the last element of the longest Array has been read at index -1
C10_Witness ==
    /\ pc = "ran"
    /\ argv.kind = "ARRAY" /\ argv.length = MaxLength
    /\ ~argv.index.far /\ argv.index.n = -1
    /\ run.evals = 1
    /\ run.result = IntegerObject(I64(10 * MaxLength))

(***************************************************************************)
(* Parameter binding in the calls of SpecPipe, piped and plain             *)
(***************************************************************************)

\* the parameters of the functions of PipePrelude
PreludeParameters == [f2 |-> {"x", "y"}, g |-> {"p", "x"}, one |-> {"x"}]

\* the explicit arguments written by name, with the name and the value of each
NamedArguments ==
    {[rest |-> <<"p = 2">>, name |-> "p", value |-> 2],
     [rest |-> <<"x = 2">>, name |-> "x", value |-> 2],
     [rest |-> <<"2", "p = 3">>, name |-> "p", value |-> 3]}

\* C6 of the calls of SpecPipe: on every call of a function of PipePrelude, plain
\* or piped, a parameter whose name an argument of the call is written with is
\* bound to that argument.
C6_BoundToArgumentOfItsName ==
    \A side \in {"piped", "called"}, callee \in DOMAIN PreludeParameters, a \in PipedValues,
       named \in NamedArguments :
          /\ run[side].evals = 1
          /\ argv = [piped |-> PipedCall(callee, a, named.rest, FALSE),
                     called |-> PlainCall(callee, a, named.rest)]
          /\ named.name \in PreludeParameters[callee]
          => \A i \in 1..Len(run[side].trace) :
                run[side].trace[i].ev = "body" =>
                   run[side].trace[i].val.store[named.name] = IntegerObject(I64(named.value))

(***************************************************************************)
(* Index-assignment: pearl -e on x[i] = 99 for an Array or a Map x that a  *)
(* second variable y holds as well                                          *)
(***************************************************************************)

\* indices that are no Integer
OtherIndexes ==
    {[text |-> "\"a\"", type |-> "STRING"], [text |-> "1.5", type |-> "FLOAT"],
     [text |-> "null", type |-> "NULL"], [text |-> "true", type |-> "BOOLEAN"]}

\* the hashable keys of KeyTexts: the type and the display form of each
HashableKeys ==
    {[text |-> "\"a\"", type |-> "STRING", shown |-> "a"],
     [text |-> "\"b\"", type |-> "STRING", shown |-> "b"],
     [text |-> "\"2\"", type |-> "STRING", shown |-> "2"],
     [text |-> "\"true\"", type |-> "STRING", shown |-> "true"],
     [text |-> "2", type |-> "INTEGER", shown |-> "2"],
     [text |-> "5", type |-> "INTEGER", shown |-> "5"],
     [text |-> "1", type |-> "INTEGER", shown |-> "1"],
     [text |-> "true", type |-> "BOOLEAN", shown |-> "true"],
     [text |-> "false", type |-> "BOOLEAN", shown |-> "false"]}

KeyOf(text) == CHOOSE k \in HashableKeys : k.text = text

Assigned == IntegerObject(I64(99))

IndexAssign(collection, index) ==
    "let x = " \o collection \o "; let y = x; x[" \o index \o "] = 99"

InitAssign ==
    /\ pc = "expression"
    /\ \/ \E n \in 0..MaxLength, i \in Indexes :
             argv = [code |-> IndexAssign(ArrayText(n), i.text), kind |-> "ARRAY",
                     length |-> n, index |-> i, type |-> "INTEGER", keys |-> <<>>, key |-> ""]
       \/ \E n \in 0..MaxLength, i \in OtherIndexes :
             argv = [code |-> IndexAssign(ArrayText(n), i.text), kind |-> "ARRAY",
                     length |-> n, index |-> [text |-> i.text, far |-> TRUE, n |-> 0],
                     type |-> i.type, keys |-> <<>>, key |-> ""]
       \/ \E map \in MapLiterals, key \in KeyTexts :
             argv = [code |-> IndexAssign(map.text, key), kind |-> "MAP",
                     length |-> Len(map.keys),
                     index |-> [text |-> key, far |-> FALSE, n |-> 0],
                     type |-> KeyOf(key).type, keys |-> map.keys, key |-> key]
    /\ stdin = <<>>
    /\ buffer = [text |-> "", inMultiline |-> FALSE]
    /\ run = NoRun
    /\ world = NoHeap
    /\ console = <<>>
    /\ status = -1

NextAssign == runExpression

SpecAssign == InitAssign /\ [][NextAssign]_vars

\* the elements of the Array literal of n elements
ArrayValue(n) == [i \in 1..n |-> IntegerObject(I64(10 * i))]

\* whether the Integer index lies in 0..length-1
InRange(length, index) == ~index.far /\ 0 <= index.n /\ index.n < length

\* the entries of a Map: the type and display form of each key with its value
Entries(h, pairs) ==
    {<<pairs[i].Key.type, Inspect(h, pairs[i].Key), pairs[i].Value>> : i \in 1..Len(pairs)}

\* the entries of the Map literal after key has been given the value val
EntriesAfter(keys, key, val) ==
    {<<KeyOf(keys[i].text).type, KeyOf(keys[i].text).shown, IntegerObject(I64(keys[i].value))>> :
        i \in {j \in 1..Len(keys) : keys[j].text # key}}
    \cup {<<KeyOf(key).type, KeyOf(key).shown, val>>}

\* C11: x[i] = 99 on an Array with an Integer i outside 0..len-1, every negative
\* i included, gives an Error and leaves the elements and the length as they
\* were; with i inside the range it replaces the element at i and no other; on a
\* Map with a hashable key it succeeds and changes the entry of that key alone
C11_IndexAssignment ==
    pc = "ran" /\ run.via = "runCode" /\ argv.type \in {"INTEGER", "STRING", "BOOLEAN"}
        /\ (argv.kind = "ARRAY" => argv.type = "INTEGER") =>
        LET r == run.result
            x == Global("x")
        IN  /\ run.errors = <<>> /\ run.evals = 1
            /\ x = Global("y")
            /\ argv.kind = "ARRAY" /\ ~InRange(argv.length, argv.index) =>
                  /\ isError(r) /\ status = 1
                  /\ Elements(world.h, x) = ArrayValue(argv.length)
            /\ argv.kind = "ARRAY" /\ InRange(argv.length, argv.index) =>
                  /\ r = Assigned /\ status = 0
                  /\ Elements(world.h, x)
                         = [ArrayValue(argv.length) EXCEPT ![argv.index.n + 1] = Assigned]
            /\ argv.kind = "MAP" =>
                  /\ r = Assigned /\ status = 0
                  /\ Entries(world.h, world.h.maps[x.id])
                         = EntriesAfter(argv.keys, argv.key, Assigned)
                  /\ Len(world.h.maps[x.id])
                         = Cardinality(EntriesAfter(argv.keys, argv.key, Assigned))

\* the middle element of the longest Array has been replaced, and an assignment
\* at index -1 refused
C11_Witness ==
    /\ pc = "ran" /\ argv.kind = "ARRAY" /\ argv.length = MaxLength
    /\ argv.type = "INTEGER" /\ ~argv.index.far /\ argv.index.n = 1
    /\ status = 0
    /\ Elements(world.h, Global("y"))[2] = Assigned

\* C12: an index-assignment whose target is an Array and whose index is a
\* String, a Float, Null or a Boolean gives an Error and leaves the Array as it
\* was: the run does not end out of band
C12_MismatchIsError ==
    pc = "ran" /\ run.via = "runCode" /\ argv.kind = "ARRAY" /\ argv.type # "INTEGER" =>
        /\ status # PanicExit("").status
        /\ isError(run.result) /\ status = 1
        /\ Elements(world.h, Global("x")) = ArrayValue(argv.length)

(***************************************************************************)
(* Builtin calls: pearl -e on name(args) for the builtins that are         *)
(* modelled, with 0 to 3 arguments of several types and integer values     *)
(***************************************************************************)
\* the integers given as arguments: around the ends of the collections, and the
\* ends of int64
CallIntegers ==
    {IndexText(n) : n \in {0 - MaxLength - 1, -1, 0, 1, MaxLength + 1}}
    \cup {"9223372036854775807", "(-9223372036854775807 - 1)"}

\* the first arguments, and the later ones
FirstArguments == {"\"abc\"", "[10, 20, 30]", "2", "null"}

LaterArguments == CallIntegers \cup {"\"b\""}

\* the argument lists
ArgumentLists ==
    {<<>>} \cup {<<a>> : a \in FirstArguments}
    \cup {<<a, b>> : a \in FirstArguments, b \in LaterArguments}
    \cup {<<a, b, c>> : a \in FirstArguments, b \in LaterArguments, c \in LaterArguments}

InitBuiltin ==
    /\ pc = "expression"
    /\ \E name \in modelledBuiltins, args \in ArgumentLists :
          argv = [code |-> name \o "(" \o Join(args, ", ") \o ")", name |-> name,
                  args |-> args]
    /\ stdin = <<>>
    /\ buffer = [text |-> "", inMultiline |-> FALSE]
    /\ run = NoRun
    /\ world = NoHeap
    /\ console = <<>>
    /\ status = -1

NextBuiltin == runExpression

SpecBuiltin == InitBuiltin /\ [][NextBuiltin]_vars

\* the run ended in a panic of a library call whose result is not modelled
Unmodelled ==
    \E msg \in {"repeat not modelled", "regexp not modelled", "float64 value not modelled"} :
        console # <<>> /\ console[Len(console)] = PanicExit(msg).console[1]

\* C13: a builtin called with any number of arguments of any types and any
\* integer values returns an Object and the run does not end out of band
C13_BuiltinsReturnObjects ==
    pc = "ran" /\ run.via = "runCode" /\ run.evals = 1 /\ ~Unmodelled =>
        /\ status # PanicExit("").status
        /\ run.result # NilObject

(***************************************************************************)
(* Shared collections: pearl -e on a program that binds one Array or Map   *)
(* to x and to y, changes it through several holders, and reads it back    *)
(* through each of them                                                    *)
(***************************************************************************)
\* the most changes made in one program
MaxOps == 2

\* the holders: the two variables, a parameter, and a variable captured by a closure
Holders == <<"x", "y", "param", "closure">>

ArrayKinds == {"push", "pop", "shift", "unshift", "assign"}

MapKinds == {"old", "new"}

\* the sequences of up to MaxOps changes: the j-th is made through the holder
\* that lies j - 1 strides after the first
Changes(kinds) ==
    UNION {{[j \in 1..k |-> [kind |-> ks[j],
                             holder |-> Holders[((first + (j - 1) * stride) % 4) + 1]]] :
               ks \in [1..k -> kinds], first \in 0..3, stride \in 0..3} : k \in 0..MaxOps}

\* the j-th change of kind kind, written on the holder named h
ChangeOn(kind, h, j) ==
    CASE kind = "push" -> "push(" \o h \o ", 7" \o Itoa(j) \o ")"
      [] kind = "pop" -> "pop(" \o h \o ")"
      [] kind = "shift" -> "shift(" \o h \o ")"
      [] kind = "unshift" -> "unshift(" \o h \o ", 8" \o Itoa(j) \o ")"
      [] kind = "assign" -> h \o "[0] = 9" \o Itoa(j)
      [] kind = "old" -> h \o "[\"a\"] = 9" \o Itoa(j)
      [] kind = "new" -> h \o "[\"n\"] = 9" \o Itoa(j)

\* an expression on the collection, evaluated through the holder
Through(holder, on(_)) ==
    CASE holder = "x" -> on("x")
      [] holder = "y" -> on("y")
      [] holder = "param" -> "fn(p) { " \o on("p") \o " }(x)"
      [] holder = "closure" -> "fn(c) { fn() { " \o on("c") \o " } }(y)()"

ChangeText(changes) ==
    LET text(j) == LET on(h) == ChangeOn(changes[j].kind, h, j)
                   IN  Through(changes[j].holder, on) \o "; "
    IN  Join([j \in 1..Len(changes) |-> text(j)], "")

ReadArray(h) == "[str(" \o h \o "), len(" \o h \o ")]"

ReadMap(h) == "[" \o h \o "[\"a\"], " \o h \o "[\"n\"], len(" \o h \o ")]"

\* the program: the closure rd captures the collection before the changes and
\* reads it after them
SharedProgram(literal, changes, Read(_)) ==
    "let x = " \o literal \o "; let y = x; let rd = fn(c) { fn() { " \o Read("c")
        \o " } }(x); " \o ChangeText(changes)
        \o "[" \o Read("x") \o ", " \o Read("y") \o ", fn(p) { " \o Read("p")
        \o " }(x), rd()]"

InitShared ==
    /\ pc = "expression"
    /\ \/ \E changes \in Changes(ArrayKinds) :
             argv = [code |-> SharedProgram(ArrayText(1), changes, ReadArray),
                     kind |-> "ARRAY", length |-> 1, changes |-> changes]
       \/ \E changes \in Changes(MapKinds) :
             argv = [code |-> SharedProgram("{\"a\": 1}", changes, ReadMap),
                     kind |-> "MAP", length |-> 1, changes |-> changes]
    /\ stdin = <<>>
    /\ buffer = [text |-> "", inMultiline |-> FALSE]
    /\ run = NoRun
    /\ world = NoHeap
    /\ console = <<>>
    /\ status = -1

NextShared == runExpression

SpecShared == InitShared /\ [][NextShared]_vars

\* the numbers an Array of the numbers s holds after the changes from the j-th
\* on, and whether one of them failed (an assignment to an empty Array), which
\* ends the program
RECURSIVE ArrayAfter(_, _, _)
ArrayAfter(s, changes, j) ==
    IF j > Len(changes) THEN [elems |-> s, failed |-> FALSE]
    ELSE LET kind == changes[j].kind
         IN  IF kind = "push" THEN ArrayAfter(Append(s, 70 + j), changes, j + 1)
             ELSE IF kind = "unshift" THEN ArrayAfter(<<80 + j>> \o s, changes, j + 1)
             ELSE IF kind = "pop"
             THEN ArrayAfter(IF s = <<>> THEN s ELSE SubSeq(s, 1, Len(s) - 1), changes, j + 1)
             ELSE IF kind = "shift"
             THEN ArrayAfter(IF s = <<>> THEN s ELSE Tail(s), changes, j + 1)
             ELSE IF s = <<>> THEN [elems |-> s, failed |-> TRUE]
             ELSE ArrayAfter([s EXCEPT ![1] = 90 + j], changes, j + 1)

\* the values of the keys "a" and "n" of the Map after the changes, 0 for none
RECURSIVE MapAfter(_, _, _)
MapAfter(s, changes, j) ==
    IF j > Len(changes) THEN s
    ELSE MapAfter([s EXCEPT ![IF changes[j].kind = "old" THEN "a" ELSE "n"] = 90 + j],
                  changes, j + 1)

IntegerOrNull(n) == IF n = 0 THEN NULL ELSE IntegerObject(I64(n))

\* what a holder reads of an Array of the numbers s, and of the Map s
ArrayRead(s) ==
    <<StringObject("[" \o Join([i \in 1..Len(s) |-> Itoa(s[i])], ", ") \o "]"),
      IntegerObject(I64(Len(s)))>>

MapRead(s) ==
    <<IntegerOrNull(s["a"]), IntegerOrNull(s["n"]),
      IntegerObject(I64(Cardinality({k \in {"a", "n"} : s[k] # 0})))>>

\* C14: an Array or Map held by two variables, a parameter and a variable
\* captured by a closure is one object: after index-assignments, push, pop,
\* shift and unshift made through any of the holders, every holder reads the
\* same contents and the same length, those the changes give in turn
C14_HoldersShare ==
    pc = "ran" /\ run.via = "runCode" =>
        LET x == Global("x")
            after == IF argv.kind = "ARRAY"
                     THEN ArrayAfter([i \in 1..argv.length |-> 10 * i], argv.changes, 1)
                     ELSE [elems |-> MapAfter([k \in {"a", "n"} |-> IF k = "a" THEN 1 ELSE 0],
                                              argv.changes, 1),
                           failed |-> FALSE]
            read == IF argv.kind = "ARRAY" THEN ArrayRead(after.elems)
                    ELSE MapRead(after.elems)
        IN  /\ run.errors = <<>> /\ run.evals = 1
            /\ x = Global("y")
            /\ argv.kind = "ARRAY" =>
                  Elements(world.h, x) = [i \in 1..Len(after.elems) |->
                                              IntegerObject(I64(after.elems[i]))]
            /\ after.failed => isError(run.result) /\ status = 1
            /\ ~after.failed =>
                  /\ status = 0
                  /\ run.result.type = "ARRAY"
                  /\ Len(Elements(world.h, run.result)) = 4
                  /\ \A i \in 1..4 :
                        /\ Elements(world.h, run.result)[i].type = "ARRAY"
                        /\ Elements(world.h, Elements(world.h, run.result)[i]) = read

\* an Array has been unshifted to through a parameter and pushed to through a
\* closure, and the four holders have read its three elements
C14_Witness ==
    /\ pc = "ran" /\ argv.kind = "ARRAY"
    /\ Len(argv.changes) = 2
    /\ argv.changes[1] = [kind |-> "unshift", holder |-> "param"]
    /\ argv.changes[2] = [kind |-> "push", holder |-> "closure"]
    /\ status = 0
    /\ Len(Elements(world.h, Global("x"))) = 3
    /\ Elements(world.h, Global("y"))[3] = IntegerObject(I64(72))
    /\ Elements(world.h, Elements(world.h, run.result)[4])[2] = IntegerObject(I64(3))

(***************************************************************************)
(* Loops and closures: pearl -e on a program whose loop makes a closure    *)
(* in every iteration and calls the closures after the loop has ended      *)
(***************************************************************************)
\* the iterable that gives n iterations
IterableText(kind, n) ==
    CASE kind = "ARRAY" -> ArrayText(n)
      [] kind = "RANGE" -> "0.." \o Itoa(n)
      [] kind = "STRING" -> "\"" \o StringValue(n) \o "\""
      [] kind = "MAP" ->
             "{" \o Join([i \in 1..n |-> "\"" \o Letters[i] \o "\": " \o Itoa(i)], ", ") \o "}"

\* the value the loop variable takes in iteration i, for a Map: one of them
IterableElement(kind, i) ==
    CASE kind = "ARRAY" -> IntegerObject(I64(10 * i))
      [] kind = "RANGE" -> IntegerObject(I64(i - 1))
      [] kind = "STRING" -> StringObject(Letters[i])
      [] kind = "MAP" -> StringObject(Letters[i])

\* the loop: every iteration appends a closure that reads the variable named
\* var (and w, when the body binds it with let) to the Array named fs
LoopText(loop, kind, n, local, var, fs) ==
    LET made == (IF local THEN "let w = " \o var \o "; " ELSE "")
                    \o "push(" \o fs \o ", fn() { [" \o var
                    \o (IF local THEN ", w" ELSE "") \o "] })"
    IN  IF loop = "for"
        THEN "for v in " \o IterableText(kind, n) \o " { push(seen, v); " \o made \o " }"
        ELSE "while i < " \o Itoa(n) \o " { " \o made \o "; i = i + 1 }"

\* the program: the loop stands at the top level or in the body of a function,
\* and the closures are called after it
LoopProgram(loop, kind, n, local, inFunction) ==
    LET var == IF loop = "for" THEN "v" ELSE "i"
        start == IF loop = "for" THEN "" ELSE "let i = 0; "
        calls == "[" \o Join([k \in 1..n |-> "fs[" \o Itoa(k - 1) \o "]()"], ", ") \o "]"
    IN  "let seen = []; "
            \o (IF inFunction
                THEN "let fs = fn(k) { " \o start \o "let a = []; "
                         \o LoopText(loop, kind, n, local, var, "a") \o " a }(0); "
                ELSE start \o "let fs = []; " \o LoopText(loop, kind, n, local, var, "fs")
                         \o " ")
            \o calls

InitLoop ==
    /\ pc = "expression"
    /\ \E loop \in {"for", "while"}, kind \in {"ARRAY", "RANGE", "STRING", "MAP"},
          n \in 0..MaxLength, local \in BOOLEAN, inFunction \in BOOLEAN :
          /\ loop = "while" => kind = "RANGE"
          /\ argv = [code |-> LoopProgram(loop, kind, n, local, inFunction), loop |-> loop,
                     kind |-> kind, n |-> n, local |-> local, inFunction |-> inFunction]
    /\ stdin = <<>>
    /\ buffer = [text |-> "", inMultiline |-> FALSE]
    /\ run = NoRun
    /\ world = NoHeap
    /\ console = <<>>
    /\ status = -1

NextLoop == runExpression

SpecLoop == InitLoop /\ [][NextLoop]_vars

\* the Environment the loop is evaluated in: the global one, or the one of the
\* call of the function, which binds k
LoopEnvironment(h, env) ==
    IF argv.inFunction
    THEN env # world.env /\ h.envs[env].outer = world.env /\ "k" \in DOMAIN h.envs[env].store
    ELSE env = world.env

\* C15: every iteration of a for loop over an Array, a Range, a String or a Map
\* evaluates the body in a new child Environment of the loop's Environment, in
\* which the loop variable alone is bound when the body starts, so the closure
\* made in iteration k reads iteration k's value when it is called after the
\* loop; a while loop evaluates condition and body of every iteration in the one
\* surrounding Environment
C15_LoopEnvironments ==
    pc = "ran" /\ run.via = "runCode" =>
        LET h == world.h
            fs == Elements(h, Global("fs"))
            seen == Elements(h, Global("seen"))
            read == Elements(h, run.result)
            n == argv.n
        IN  /\ run.errors = <<>> /\ run.evals = 1 /\ status = 0
            /\ Len(fs) = n /\ Len(read) = n
            /\ \A k \in 1..n : fs[k].type = "FUNCTION"
            /\ argv.loop = "for" =>
                  /\ Len(seen) = n
                  /\ argv.kind # "MAP" => \A k \in 1..n : seen[k] = IterableElement(argv.kind, k)
                  /\ {seen[k] : k \in 1..n} = {IterableElement(argv.kind, k) : k \in 1..n}
                  /\ \A k \in 1..n :
                        /\ LoopEnvironment(h, h.envs[fs[k].Env].outer)
                        /\ DOMAIN h.envs[fs[k].Env].store
                               = IF argv.local THEN {"v", "w"} ELSE {"v"}
                        /\ h.envs[fs[k].Env].store["v"] = seen[k]
                        /\ Elements(h, read[k])
                               = IF argv.local THEN <<seen[k], seen[k]>> ELSE <<seen[k]>>
                        /\ \A j \in 1..n : j # k => fs[j].Env # fs[k].Env
                  /\ ~EnvGet(h, world.env, "v").ok
            /\ argv.loop = "while" =>
                  \A k \in 1..n :
                      /\ LoopEnvironment(h, fs[k].Env)
                      /\ fs[k].Env = fs[1].Env
                      /\ Elements(h, read[k])
                             = IF argv.local
                               THEN <<IntegerObject(I64(n)), IntegerObject(I64(n - 1))>>
                               ELSE <<IntegerObject(I64(n))>>

\* the closures of the iterations over the largest Map, made in the body of a
\* function, have been called after the loop
C15_Witness ==
    /\ pc = "ran" /\ status = 0
    /\ argv.loop = "for" /\ argv.kind = "MAP" /\ argv.n = MaxLength /\ argv.inFunction
    /\ Len(Elements(world.h, run.result)) = MaxLength
    /\ Elements(world.h, Elements(world.h, run.result)[MaxLength])[1].type = "STRING"

(***************************************************************************)
(* Infix operators: pearl -e on a op b for operands of every type          *)
(***************************************************************************)
\* the operators Eval hands to evalInfixExpression (&& and || go to
\* evalLogicalExpression)
InfixOperators == {"+", "-", "*", "/", "%", "++", "==", "!=", "<", ">", "<=", ">="}

\* an operand of every type, as its text
TypedOperands ==
    {[text |-> "2", type |-> "INTEGER"], [text |-> "1.5", type |-> "FLOAT"],
     [text |-> "\"a\"", type |-> "STRING"], [text |-> "true", type |-> "BOOLEAN"],
     [text |-> "false", type |-> "BOOLEAN"], [text |-> "null", type |-> "NULL"],
     [text |-> "[1]", type |-> "ARRAY"], [text |-> "{}", type |-> "MAP"],
     [text |-> "regex(\"a\")", type |-> "REGEX"]}

\* the operands are bound to a and b; with same, b is bound to the value of a
InitInfix ==
    /\ pc = "expression"
    /\ \E operator \in InfixOperators, left, right \in TypedOperands, same \in BOOLEAN :
          /\ same => right = left
          /\ argv = [code |-> "let a = " \o left.text \o "; let b = "
                                  \o (IF same THEN "a" ELSE right.text)
                                  \o "; a " \o operator \o " b",
                     operator |-> operator, left |-> left, right |-> right, same |-> same]
    /\ stdin = <<>>
    /\ buffer = [text |-> "", inMultiline |-> FALSE]
    /\ run = NoRun
    /\ world = NoHeap
    /\ console = <<>>
    /\ status = -1

NextInfix == runExpression

SpecInfix == InitInfix /\ [][NextInfix]_vars

\* the pairs of operand types with an evaluation of their own: integer-integer,
\* numeric with at least one float, string-string, string-regex
OwnPair(left, right) ==
    \/ left = "INTEGER" /\ right = "INTEGER"
    \/ {left, right} \subseteq {"INTEGER", "FLOAT"} /\ "FLOAT" \in {left, right}
    \/ left = "STRING" /\ right = "STRING"
    \/ left = "STRING" /\ right = "REGEX"

\* whether a and b are bound to one object: to the same value, or to the
\* one Boolean of their value, or to the one Null
OneObject ==
    \/ argv.same
    \/ argv.left.type \in {"BOOLEAN", "NULL"} /\ argv.left.text = argv.right.text

\* C16: on a pair of operand types without an evaluation of its own, == and !=
\* compare the identity of the operands and every other operator gives an
\* "unknown operator" Error; a Float with a String, a Boolean, Null or an Array
\* is such a pair
C16_OtherPairs ==
    pc = "ran" /\ run.via = "runCode" /\ ~OwnPair(argv.left.type, argv.right.type) =>
        /\ run.errors = <<>> /\ run.evals = 1
        /\ argv.operator = "==" => run.result = nativeBoolToBooleanObject(OneObject)
        /\ argv.operator = "!=" => run.result = nativeBoolToBooleanObject(~OneObject)
        /\ argv.operator \notin {"==", "!="} =>
              /\ isError(run.result)
              /\ run.result.Message = "unknown operator: " \o argv.left.type \o " "
                                          \o argv.operator \o " " \o argv.right.type
              /\ status = 1

(***************************************************************************)
(* String interpolation: pearl -e on `let x = 10; "..."` for string        *)
(* literals made of runs of text and of interpolation spans                *)
(***************************************************************************)
\* the most pieces of a literal
MaxPieces == 3

\* the pieces: their text in the literal, whether they are a span (then inner is
\* the text between its braces), and what they give in the value with x = 10
TextPieces ==
    {[text |-> "x is ", IsExpr |-> FALSE, inner |-> "", shown |-> "x is "],
     [text |-> "b} ", IsExpr |-> FALSE, inner |-> "", shown |-> "b} "]}

SpanPieces ==
    {[text |-> "{x}", IsExpr |-> TRUE, inner |-> "x", shown |-> "10"],
     [text |-> "{ {1:2} }", IsExpr |-> TRUE, inner |-> " {1:2} ", shown |-> "{1: 2}"],
     [text |-> "{fn(a) { [a, {x: a}] }(x + 1)}", IsExpr |-> TRUE,
      inner |-> "fn(a) { [a, {x: a}] }(x + 1)", shown |-> "[11, {10: 11}]"]}

\* the literals: up to MaxPieces pieces, no run of text next to another (the two
\* would be one run)
Pieces ==
    {ps \in SeqsOver(TextPieces \cup SpanPieces, 0, MaxPieces) :
        \A i \in 1..(Len(ps) - 1) : ps[i].IsExpr \/ ps[i + 1].IsExpr}

InitInterpolate ==
    /\ pc = "expression"
    /\ \E ps \in Pieces :
          argv = [code |-> "let x = 10; \"" \o Join([i \in 1..Len(ps) |-> ps[i].text], "")
                               \o "\"",
                  pieces |-> ps]
    /\ stdin = <<>>
    /\ buffer = [text |-> "", inMultiline |-> FALSE]
    /\ run = NoRun
    /\ world = NoHeap
    /\ console = <<>>
    /\ status = -1

NextInterpolate == runExpression

SpecInterpolate == InitInterpolate /\ [][NextInterpolate]_vars

\* the expression a span holds: the first statement of its text
SpanExpression(inner) == Parse(inner).program.Statements[1].Expression

\* C17: an interpolation span ends at the } that brings the brace depth back to
\* zero, the parts of the literal are kept in the order of the source, and the
\* value is the text of every literal part and the display form of the value of
\* every span, one after the other; "x is {x}" with x = 10 gives "x is 10"
C17_Interpolation ==
    pc = "ran" /\ run.via = "runCode" =>
        LET ps == argv.pieces
            literal(parsed) == parsed.program.Statements[2].Expression
            parts == literal(Parse(argv.code)).Parts
        IN  /\ run.errors = <<>> /\ run.evals = 1 /\ status = 0
            /\ Len(parts) = Len(ps)
            /\ \A i \in 1..Len(ps) :
                  /\ parts[i].IsExpr = ps[i].IsExpr
                  /\ ~ps[i].IsExpr => parts[i].Text = ps[i].text
                  /\ ps[i].IsExpr => parts[i].Expr = SpanExpression(ps[i].inner)
            /\ run.result = StringObject(Join([i \in 1..Len(ps) |-> ps[i].shown], ""))
            /\ argv.code = "let x = 10; \"x is {x}\"" => run.result = StringObject("x is 10")

\* "x is {x}" has been evaluated, and so has a literal of a span with inner
\* braces between two runs of text
C17_Witness ==
    /\ pc = "ran" /\ status = 0
    /\ \/ argv.code = "let x = 10; \"x is {x}\"" /\ run.result = StringObject("x is 10")
       \/ /\ argv.code = "let x = 10; \"x is { {1:2} }b} \""
          /\ run.result = StringObject("x is {1: 2}b} ")

(***************************************************************************)
(* replace and replace_all: pearl -e on replace(s, old, new) and           *)
(* replace_all(s, old, new) for a String and for a Regex old               *)
(***************************************************************************)
Subjects == {"a1b2", "aXaXa", "", "abc", "1122"}

\* what is replaced: its text in the program, and the atoms it matches byte by
\* byte; the Regex values are made by the builtin regex
Olds ==
    {[text |-> "\"a\"", regex |-> FALSE, atoms |-> <<"a">>],
     [text |-> "\"1\"", regex |-> FALSE, atoms |-> <<"1">>],
     [text |-> "\"X\"", regex |-> FALSE, atoms |-> <<"X">>],
     [text |-> "\"1b\"", regex |-> FALSE, atoms |-> <<"1", "b">>],
     [text |-> "\"aXa\"", regex |-> FALSE, atoms |-> <<"a", "X", "a">>],
     [text |-> "regex(\"\\d\")", regex |-> TRUE, atoms |-> <<"\\d">>],
     [text |-> "regex(\"a\")", regex |-> TRUE, atoms |-> <<"a">>],
     [text |-> "regex(\"\\d\\d\")", regex |-> TRUE, atoms |-> <<"\\d", "\\d">>]}

News == {"_", "", "bb"}

InitReplace ==
    /\ pc = "expression"
    /\ \E name \in {"replace", "replace_all"}, s \in Subjects, old \in Olds, new \in News :
          argv = [code |-> name \o "(\"" \o s \o "\", " \o old.text \o ", \"" \o new \o "\")",
                  name |-> name, s |-> s, old |-> old, new |-> new]
    /\ stdin = <<>>
    /\ buffer = [text |-> "", inMultiline |-> FALSE]
    /\ run = NoRun
    /\ world = NoHeap
    /\ console = <<>>
    /\ status = -1

NextReplace == runExpression

SpecReplace == InitReplace /\ [][NextReplace]_vars

\* the positions (from 0) at which the atoms occur in s
Occurrences(atoms, s) == {i \in 0..Len(s) : MatchesAt(atoms, s, i)}

\* s with the first occurrence of the atoms replaced by new, and with every
\* occurrence replaced, taken from the left without overlap
FirstReplaced(atoms, s, new) ==
    IF Occurrences(atoms, s) = {} THEN s
    ELSE LET i == CHOOSE i \in Occurrences(atoms, s) : \A j \in Occurrences(atoms, s) : i <= j
         IN  SubSeq(s, 1, i) \o new \o SubSeq(s, i + Len(atoms) + 1, Len(s))

RECURSIVE EveryReplaced(_, _, _)
EveryReplaced(atoms, s, new) ==
    IF Occurrences(atoms, s) = {} THEN s
    ELSE LET i == CHOOSE i \in Occurrences(atoms, s) : \A j \in Occurrences(atoms, s) : i <= j
         IN  SubSeq(s, 1, i) \o new
                 \o EveryReplaced(atoms, SubSeq(s, i + Len(atoms) + 1, Len(s)), new)

\* C18: replace(s, old, new) replaces the first occurrence of old in s and no
\* other, whether old is a String or a Regex, and replace_all(s, old, new)
\* replaces every occurrence
C18_ReplaceFirst ==
    pc = "ran" /\ run.via = "runCode" =>
        /\ run.errors = <<>> /\ run.evals = 1 /\ status = 0
        /\ run.result = StringObject(IF argv.name = "replace"
                                     THEN FirstReplaced(argv.old.atoms, argv.s, argv.new)
                                     ELSE EveryReplaced(argv.old.atoms, argv.s, argv.new))

(***************************************************************************)
(* unique: pearl -e on `let arr = [...]; let u = unique(arr);              *)
(* let uu = unique(u); [arr, u, uu]`                                       *)
(***************************************************************************)
\* the most elements of arr
MaxElements == 3

\* the elements, as their text and their display form: the Integer 1 and the
\* String "1" have one display form, and so have the two Arrays [1]
UniqueElements ==
    {[text |-> "1", shown |-> "1"], [text |-> "\"1\"", shown |-> "1"],
     [text |-> "2", shown |-> "2"], [text |-> "null", shown |-> "null"],
     [text |-> "[1]", shown |-> "[1]"], [text |-> "{1: 2}", shown |-> "{1: 2}"]}

InitUnique ==
    /\ pc = "expression"
    /\ \E es \in SeqsOver(UniqueElements, 0, MaxElements) :
          argv = [code |-> "let arr = [" \o Join([i \in 1..Len(es) |-> es[i].text], ", ")
                               \o "]; let u = unique(arr); let uu = unique(u); [arr, u, uu]",
                  elements |-> es]
    /\ stdin = <<>>
    /\ buffer = [text |-> "", inMultiline |-> FALSE]
    /\ run = NoRun
    /\ world = NoHeap
    /\ console = <<>>
    /\ status = -1

NextUnique == runExpression

SpecUnique == InitUnique /\ [][NextUnique]_vars

\* the positions of the first occurrences of the display forms, and the k-th of them
FirstOccurrences(es) == {i \in 1..Len(es) : \A j \in 1..(i - 1) : es[j].shown # es[i].shown}

KthOf(S, k) == CHOOSE i \in S : Cardinality({j \in S : j < i}) = k - 1

\* C19: unique(arr) holds the first element of every display form of arr, in the
\* order of arr, and leaves arr as it was; unique(unique(arr)) holds the same
\* elements in the same order as unique(arr)
C19_UniqueIdempotent ==
    pc = "ran" /\ run.via = "runCode" =>
        LET h == world.h
            es == argv.elements
            arr == Elements(h, Global("arr"))
            u == Elements(h, Global("u"))
            uu == Elements(h, Global("uu"))
            first == FirstOccurrences(es)
        IN  /\ run.errors = <<>> /\ run.evals = 1 /\ status = 0
            /\ Len(arr) = Len(es)
            /\ \A i \in 1..Len(es) : Inspect(h, arr[i]) = es[i].shown
            /\ Global("u") # Global("arr")
            /\ u = [k \in 1..Cardinality(first) |-> arr[KthOf(first, k)]]
            /\ uu = u

\* unique has dropped the String "1" and the second Integer 1 of [1, "1", 1]
C19_Witness ==
    /\ pc = "ran" /\ status = 0
    /\ argv.code = "let arr = [1, \"1\", 1]; let u = unique(arr); let uu = unique(u); [arr, u, uu]"
    /\ Len(Elements(world.h, Global("arr"))) = 3
    /\ Elements(world.h, Global("u")) = <<IntegerObject(I64(1))>>
    /\ Elements(world.h, Global("uu")) = <<IntegerObject(I64(1))>>

(***************************************************************************)
(* Statements that fail to parse: ParseProgram on a statement that fails,  *)
(* after and before statements that parse                                  *)
(***************************************************************************)
\* the statements that fail: a let without its name, without its =, a for without
\* its variable, its in, its {, a while without its {, and two expression statements
\* whose first token starts no expression
FailingStatements ==
    {"let = 5", "let x 5", "for in [1] { 2 }", "for x [1] { 2 }", "for x in [1] 2",
     "while true 2", ")", "let 5 = x"}

StatementsBefore == {"", "1\n", "let a = 1\n"}

StatementsAfter == {"y", "let z = 3", "f(1)"}

RecoveryText(before, failing, after) == before \o failing \o "\n" \o after

InitRecover ==
    /\ pc = "parse"
    /\ \E before \in StatementsBefore, failing \in FailingStatements,
          after \in StatementsAfter : argv = RecoveryText(before, failing, after)
    /\ stdin = <<>>
    /\ buffer = [text |-> "", inMultiline |-> FALSE]
    /\ run = NoRun
    /\ world = NoHeap
    /\ console = <<>>
    /\ status = -1

NextRecover == parseSource

SpecRecover == InitRecover /\ [][NextRecover]_vars

\* a statement of the list that stands for no statement: the nil pointer a statement
\* parser returned, or an expression statement without an expression
AbsentStatement(s) ==
    \/ s.kind = "typednil"
    \/ s.kind = "ExpressionStatement" /\ s.Expression = NIL

\* at least one diagnostic is recorded
DiagnosticRecorded == pc = "parsed" => run.errors # <<>>

\* the statements before and after the failing one are in the Program, first and last
OthersParsed ==
    pc = "parsed" =>
        \A before \in StatementsBefore, failing \in FailingStatements,
           after \in StatementsAfter :
            run.code = RecoveryText(before, failing, after) =>
                LET ss == run.result.Statements
                    bs == Parse(before).program.Statements
                    as == Parse(after).program.Statements
                IN  /\ Len(ss) >= Len(bs) + 1
                    /\ SubSeq(ss, 1, Len(bs)) = bs
                    /\ ss[Len(ss)] = as[1]

\* C20: a statement that fails to parse is not in the Program's statement list, a
\* diagnostic is recorded and the statements around it are parsed
C20_FailedOmitted ==
    /\ DiagnosticRecorded
    /\ OthersParsed
    /\ pc = "parsed" =>
          \A i \in 1..Len(run.result.Statements) : ~AbsentStatement(run.result.Statements[i])

\* what ParseProgram does with `let = 5` before `y`: the nil *ast.LetStatement is
\* the first statement of the Program, the expression statement of `=` the second
LetWithoutNameKept ==
    pc = "parsed" /\ run.code = RecoveryText("", "let = 5", "y") =>
        /\ Len(run.result.Statements) = 4
        /\ run.result.Statements[1] = TypedNil("*ast.LetStatement")
        /\ run.result.Statements[2] = [kind |-> "ExpressionStatement", Expression |-> NIL]

\* every failing statement leaves a statement that stands for none
EveryAbsentKept ==
    pc = "parsed" =>
        \E i \in 1..Len(run.result.Statements) : AbsentStatement(run.result.Statements[i])

(***************************************************************************)
(* Missing closing tokens: ParseProgram on a text that ends before the     *)
(* closing token of its last construct                                     *)
(***************************************************************************)
\* the constructs whose block is open at the end of the input
OpenBlocks ==
    {"fn() {", "fn(a) {", "if (true) {", "if (false) { 1 } else {", "for x in [1] {",
     "while false {"}

BlockBodies == {"", " 1", " let a = 1", "\n 1\n", " return 1"}

\* the constructs whose ), ] or } of a Map is missing
OpenExpressions == {"(1 + 2", "[1, 2", "f(1", "{1: 2", "a[1"}

UnclosedBefore == {"", "let b = 2\n"}

UnclosedBlockTexts ==
    {before \o open \o body : before \in UnclosedBefore, open \in OpenBlocks,
                              body \in BlockBodies}

UnclosedExpressionTexts ==
    {before \o open : before \in UnclosedBefore, open \in OpenExpressions}

InitUnclosed ==
    /\ pc = "parse"
    /\ argv \in UnclosedBlockTexts \cup UnclosedExpressionTexts
    /\ stdin = <<>>
    /\ buffer = [text |-> "", inMultiline |-> FALSE]
    /\ run = NoRun
    /\ world = NoHeap
    /\ console = <<>>
    /\ status = -1

NextUnclosed == parseSource

SpecUnclosed == InitUnclosed /\ [][NextUnclosed]_vars

\* C21: a text whose last construct lacks its closing token leaves at least one
\* diagnostic in the parser's list
C21_MissingCloseRecorded == pc = "parsed" => run.errors # <<>>

\* a missing ), ] or } of a Map is recorded
ExpressionCloseRecorded ==
    pc = "parsed" /\ run.code \in UnclosedExpressionTexts => run.errors # <<>>

\* a block that the end of the input closes is recorded nowhere
BlockCloseUnrecorded ==
    pc = "parsed" /\ run.code \in UnclosedBlockTexts => run.errors = <<>>

(***************************************************************************)
(* Pipelines over several lines: ParseProgram on `let result = head`       *)
(* followed by stages `|> stage`, each on a line of its own or all on the  *)
(* line of the let                                                         *)
(***************************************************************************)
\* the most stages of a pipeline
MaxStages == 2

PipelineHeads == {"\"  HELLO WORLD  \"", "x", "[1, 2]"}

PipelineStages == {"trim()", "lower()", "split(\" \")", "f"}

\* what stands between two stages: the line break of the README, with and without
\* indentation
LineBreaks == {"\n", "\n    "}

PipelineText(head, stages, between) ==
    "let result = " \o head
        \o Join([i \in 1..Len(stages) |-> between \o "|> " \o stages[i]], "")

PipelinesWith(betweens) ==
    {PipelineText(head, stages, between) :
        head \in PipelineHeads, stages \in SeqsOver(PipelineStages, 1, MaxStages),
        between \in betweens}

InitMultiline ==
    /\ pc = "parse"
    /\ argv \in PipelinesWith(LineBreaks \cup {" "})
    /\ stdin = <<>>
    /\ buffer = [text |-> "", inMultiline |-> FALSE]
    /\ run = NoRun
    /\ world = NoHeap
    /\ console = <<>>
    /\ status = -1

NextMultiline == parseSource

SpecMultiline == InitMultiline /\ [][NextMultiline]_vars

\* the Program is one let statement of result, parsed without a diagnostic
OneLetStatement ==
    /\ run.errors = <<>>
    /\ Len(run.result.Statements) = 1
    /\ run.result.Statements[1].kind = "LetStatement"
    /\ run.result.Statements[1].Name = "result"
    /\ run.result.Statements[1].Value.kind = "PipeExpression"

\* C22: a pipeline whose stages each begin a line with |> parses without diagnostics
\* as one let statement whose value is the pipe chain
C22_PipelineOverLines ==
    pc = "parsed" /\ run.code \in PipelinesWith(LineBreaks) => OneLetStatement

\* the same pipeline on one line is one let statement
PipelineOnOneLine ==
    pc = "parsed" /\ run.code \in PipelinesWith({" "}) => OneLetStatement

\* over several lines the let statement ends with its first line and every further
\* line is a statement of its own that begins with |>, for which there is no prefix
\* parse function
PipelineCutAtLine ==
    pc = "parsed" /\ run.code \in PipelinesWith(LineBreaks) =>
        /\ run.errors # <<>>
        /\ run.result.Statements[1].kind = "LetStatement"
        /\ run.result.Statements[1].Value.kind # "PipeExpression"

(***************************************************************************)
(* return before }: ParseProgram on a construct whose block ends with a    *)
(* return, followed by further statements                                  *)
(***************************************************************************)
\* the constructs, up to the { of their block
BlockOwners == {"let f = fn() {", "if (true) {", "for x in [1] {", "while true {", "fn(a) {"}

\* the ends of the block: the return right before the }, and the return with a
\* terminator or a value between
BareReturn == " return }"

OtherReturns == {" return; }", " return\n}", " return 1 }"}

AfterBlock == {"\n", " "}

Siblings == {"y", "let z = 3", "print(1)", "y\nz"}

ReturnText(owner, end, between, siblings) == owner \o end \o between \o siblings

InitReturn ==
    /\ pc = "parse"
    /\ \E owner \in BlockOwners, end \in {BareReturn} \cup OtherReturns,
          between \in AfterBlock, siblings \in Siblings :
              argv = ReturnText(owner, end, between, siblings)
    /\ stdin = <<>>
    /\ buffer = [text |-> "", inMultiline |-> FALSE]
    /\ run = NoRun
    /\ world = NoHeap
    /\ console = <<>>
    /\ status = -1

NextReturn == parseSource

SpecReturn == InitReturn /\ [][NextReturn]_vars

\* the block of the construct a statement holds
OwnedBlock(s) ==
    CASE s.kind = "LetStatement" -> s.Value.Body
      [] s.kind = "ExpressionStatement" /\ s.Expression.kind = "IfExpression" ->
             s.Expression.Consequence
      [] s.kind = "ExpressionStatement" -> s.Expression.Body
      [] OTHER -> s.Body

\* the block holds its return alone and the statements after the } follow the
\* construct in the Program
BlockClosed(ends) ==
    pc = "parsed" =>
        \A owner \in BlockOwners, end \in ends, between \in AfterBlock, siblings \in Siblings :
            run.code = ReturnText(owner, end, between, siblings) =>
                LET ss == run.result.Statements
                IN  /\ run.errors = <<>>
                    /\ ss = <<ss[1]>> \o Parse(siblings).program.Statements
                    /\ Len(OwnedBlock(ss[1]).Statements) = 1
                    /\ OwnedBlock(ss[1]).Statements[1].kind = "ReturnStatement"
                    /\ end # " return 1 }" =>
                          OwnedBlock(ss[1]).Statements[1].ReturnValue = NIL

\* C23: a return right before } has no value, the } closes the block, and the
\* statements after it are siblings of the construct that owns the block
C23_ReturnBeforeBrace == BlockClosed({BareReturn})

\* with a terminator or a value after return the } closes the block
OtherReturnsClose == BlockClosed(OtherReturns)

\* a return right before } takes the } as its own token: the block goes on to the
\* end of the input and holds the statements written after the }
BraceTaken ==
    pc = "parsed" =>
        \A owner \in BlockOwners, between \in AfterBlock, siblings \in Siblings :
            run.code = ReturnText(owner, BareReturn, between, siblings) =>
                LET ss == run.result.Statements
                IN  /\ run.errors = <<>>
                    /\ Len(ss) = 1
                    /\ OwnedBlock(ss[1]).Statements =
                          <<[kind |-> "ReturnStatement", ReturnValue |-> NIL]>>
                              \o Parse(siblings).program.Statements

(***************************************************************************)
(* Regex literals in prefix position: ParseProgram on a text whose regex   *)
(* literal begins an expression                                            *)
(***************************************************************************)
RegexPatterns == {"a", "abc", "a+", "\\d", "\\d+", "a b", "[a-z]+", "a\\/b", "1", "(a|b)"}

\* the places of the literal: a statement, the value of a let, the argument of a
\* call, and the second argument of the README's replace
RegexPlaces == {"statement", "let", "argument", "second"}

RegexAfter == {"", "\ny"}

RegexText(place, pattern, after) ==
    LET literal == "/" \o pattern \o "/"
    IN  (CASE place = "statement" -> literal
           [] place = "let" -> "let r = " \o literal
           [] place = "argument" -> "f(" \o literal \o ")"
           [] place = "second" -> "replace(s, " \o literal \o ", \"_\")") \o after

InitRegexLiteral ==
    /\ pc = "parse"
    /\ \E place \in RegexPlaces, pattern \in RegexPatterns, after \in RegexAfter :
          argv = RegexText(place, pattern, after)
    /\ stdin = <<>>
    /\ buffer = [text |-> "", inMultiline |-> FALSE]
    /\ run = NoRun
    /\ world = NoHeap
    /\ console = <<>>
    /\ status = -1

NextRegexLiteral == parseSource

SpecRegexLiteral == InitRegexLiteral /\ [][NextRegexLiteral]_vars

\* the node at the place of the literal in the first statement, NIL when the
\* statement has no such place
NodeAt(place, s) ==
    CASE place = "statement" /\ s.kind = "ExpressionStatement" -> s.Expression
      [] place = "let" /\ s.kind = "LetStatement" -> s.Value
      [] place = "argument" /\ s.kind = "ExpressionStatement"
            /\ s.Expression.kind = "CallExpression" /\ Len(s.Expression.Arguments) >= 1 ->
             s.Expression.Arguments[1]
      [] place = "second" /\ s.kind = "ExpressionStatement"
            /\ s.Expression.kind = "CallExpression" /\ Len(s.Expression.Arguments) >= 2 ->
             s.Expression.Arguments[2]
      [] OTHER -> NIL

\* the literal is parsed as the RegexLiteral of its pattern and the parser goes on
\* with the first token after the closing /
LiteralParsed(place, pattern, after) ==
    /\ run.errors = <<>>
    /\ Len(run.result.Statements) = Len(Parse(after).program.Statements) + 1
    /\ NodeAt(place, run.result.Statements[1]) = [kind |-> "RegexLiteral", Pattern |-> pattern]

\* C24: a regex literal in prefix position has the text between its slashes as its
\* pattern, and the token after the closing / is the parser's lookahead afterwards
C24_PrefixRegex ==
    pc = "parsed" =>
        \A place \in RegexPlaces, pattern \in RegexPatterns, after \in RegexAfter :
            run.code = RegexText(place, pattern, after) => LiteralParsed(place, pattern, after)

\* no literal of the model is parsed as the claim says: the lookahead, read before
\* ReadRegex, holds the first token of the pattern, and ReadRegex starts after it
NoLiteralParsed ==
    pc = "parsed" =>
        \A place \in RegexPlaces, pattern \in RegexPatterns, after \in RegexAfter :
            run.code = RegexText(place, pattern, after) => ~LiteralParsed(place, pattern, after)

(***************************************************************************)
(* Defaults that fail: pearl -e on a call of a function whose parameter    *)
(* default evaluates to an Error                                           *)
(***************************************************************************)
\* defaults whose evaluation is an Error
FailingDefaults == {"1 / 0", "nope", "-true", "1 + true", "g()"}

\* the parameters with the default at a, and the arguments of the call; used tells
\* whether the call evaluates the default
DefaultCalls(default) ==
    {[params |-> "a = " \o default, args |-> "", used |-> TRUE],
     [params |-> "x, a = " \o default, args |-> "1", used |-> TRUE],
     [params |-> "a = " \o default \o ", b = 2", args |-> "b = 3", used |-> TRUE],
     [params |-> "a = " \o default, args |-> "7", used |-> FALSE]}

\* the last expression of the body, after the print that shows the body has run
BodyEnds == {"5", "a", "null", "a == a"}

InitDefault ==
    /\ pc = "expression"
    /\ \E default \in FailingDefaults, end \in BodyEnds :
          \E call \in DefaultCalls(default) :
              argv = [code |-> "let f = fn(" \o call.params \o ") { print(\"body\"); "
                                   \o end \o " }; f(" \o call.args \o ")",
                      used |-> call.used, end |-> end]
    /\ stdin = <<>>
    /\ buffer = [text |-> "", inMultiline |-> FALSE]
    /\ run = NoRun
    /\ world = NoHeap
    /\ console = <<>>
    /\ status = -1

NextDefault == runExpression

SpecDefault == InitDefault /\ [][NextDefault]_vars

BodyPrinted == \E i \in 1..Len(console) : console[i] = [text |-> "body\n", fd |-> 1]

\* C25: when the default of a parameter evaluates to an Error the call gives that
\* Error and the body is not evaluated
C25_DefaultErrorReturned ==
    pc = "ran" /\ run.via = "runCode" /\ argv.used =>
        /\ run.errors = <<>>
        /\ isError(run.result)
        /\ ~BodyPrinted

\* the body is evaluated with the Error bound to a: a body that does not end with
\* a gives its own value
DefaultErrorBound ==
    pc = "ran" /\ run.via = "runCode" /\ argv.used =>
        /\ run.errors = <<>>
        /\ BodyPrinted
        /\ argv.end = "5" => run.result = IntegerObject(I64(5)) /\ status = 0
        /\ argv.end = "null" => run.result = NULL /\ status = 0
        /\ argv.end = "a" => isError(run.result)
        /\ argv.end = "a == a" => isError(run.result)

\* with an argument for a the default is not evaluated
DefaultUnused ==
    pc = "ran" /\ run.via = "runCode" /\ ~argv.used /\ argv.end = "a" =>
        run.result = IntegerObject(I64(7)) /\ BodyPrinted

(***************************************************************************)
(* Empty interpolation spans: pearl -e on `let x = 10; "..."` for string   *)
(* literals with spans whose text holds no statement                       *)
(***************************************************************************)
\* the most pieces of a literal with empty spans
MaxSpans == 3

\* the pieces: runs of text, a span of x, and the spans without a statement, each
\* with what it gives in the value
EmptySpans ==
    {[text |-> "{}", empty |-> TRUE, shown |-> ""],
     [text |-> "{ }", empty |-> TRUE, shown |-> ""]}

FilledPieces ==
    {[text |-> "a", empty |-> FALSE, shown |-> "a"],
     [text |-> "b ", empty |-> FALSE, shown |-> "b "],
     [text |-> "{x}", empty |-> FALSE, shown |-> "10"]}

InitEmptySpan ==
    /\ pc = "expression"
    /\ \E ps \in SeqsOver(EmptySpans \cup FilledPieces, 1, MaxSpans) :
          /\ \E i \in 1..Len(ps) : ps[i].empty
          /\ argv = [code |-> "let x = 10; \""
                                  \o Join([i \in 1..Len(ps) |-> ps[i].text], "") \o "\"",
                     pieces |-> ps]
    /\ stdin = <<>>
    /\ buffer = [text |-> "", inMultiline |-> FALSE]
    /\ run = NoRun
    /\ world = NoHeap
    /\ console = <<>>
    /\ status = -1

NextEmptySpan == runExpression

SpecEmptySpan == InitEmptySpan /\ [][NextEmptySpan]_vars

\* the value with nothing for every empty span
WithoutEmptySpans(ps) == StringObject(Join([i \in 1..Len(ps) |-> ps[i].shown], ""))

\* C26: a span without a statement gives nothing: the value of the literal is what
\* its other parts give, also when the literal has no other part
C26_EmptySpanNothing ==
    pc = "ran" /\ run.via = "runCode" =>
        /\ run.errors = <<>> /\ status = 0
        /\ run.result = WithoutEmptySpans(argv.pieces)

\* so it is for every literal with another part
EmptySpanBesideParts ==
    pc = "ran" /\ run.via = "runCode" /\ (\E i \in 1..Len(argv.pieces) : ~argv.pieces[i].empty) =>
        /\ run.errors = <<>> /\ status = 0
        /\ run.result = WithoutEmptySpans(argv.pieces)

\* a literal of empty spans alone has no part, and its value is its own text
EmptySpansAlone ==
    pc = "ran" /\ run.via = "runCode" /\ (\A i \in 1..Len(argv.pieces) : argv.pieces[i].empty) =>
        /\ run.errors = <<>> /\ status = 0
        /\ run.result =
              StringObject(Join([i \in 1..Len(argv.pieces) |-> argv.pieces[i].text], ""))

(***************************************************************************)
(* Termination of ParseProgram: the parser taken step by step on every     *)
(* text of a few tokens and on texts that end inside a construct           *)
(***************************************************************************)
\* the most tokens of a text
MaxTokens == 3

TextTokens == {"{", "}", "(", ":", "\n", "x", "let", "fn"}

\* texts that end, or go wrong, inside a construct
BrokenTexts ==
    {"fn(a, b = ", "for x in {", "if (x) { y } else {", "while x {\n\n", "{x: 1,\n", "{x: 1, ,",
     "{\n\n", "{x 1}", "f(a = ", "f(1, ", "[1,", "[1 2", "/abc", "x ~ /ab", "\"{ {\"", "\"{ { x }\"",
     "a[1", "1 |> ", "{ { { {", "} } }", "return }", "fn() { return } }", "if x", "for", "# {"}

TokenTexts ==
    {Join(ts, " ") : ts \in SeqsOver(TextTokens, 0, MaxTokens)} \cup BrokenTexts

\* the steps of the parser for a character of the input, at most
StepsPerCharacter == 8

\* the parser and its stack after parser.New, and no loop head passed yet
InitTerminate ==
    /\ pc = "parsing"
    /\ argv \in TokenTexts
    /\ stdin = <<>>
    /\ buffer = [text |-> "", inMultiline |-> FALSE]
    /\ run = NoRun
    /\ world = [m |-> [p |-> NewParser(NewLexer(argv)),
                       k |-> <<[fn |-> "ParseProgram", pc |-> 0, statements |-> <<>>]>>,
                       ret |-> NIL, steps |-> 0],
                heads |-> <<>>]
    /\ console = <<>>
    /\ status = -1

\* how far the parser has come in its input: the lexer's position while tokens are
\* left, beyond every position once the lookahead is EOF, and beyond that once the
\* current token is EOF
Cursor(p) ==
    IF p.curToken.Type = "EOF" THEN 2000
    ELSE IF p.peekToken.Type = "EOF" THEN 1000
    ELSE p.l.pos

\* the running routine is the loop of ParseProgram or of parseBlockStatement, at
\* the head of the loop
AtLoopHead(m) ==
    /\ m.k # <<>>
    /\ Head(m.k).fn \in {"ParseProgram", "parseBlockStatement"}
    /\ Head(m.k).pc = 1

\* one step of the parser; heads keeps, for every depth of the stack, the cursor
\* at the loop head last passed there
parserStep ==
    /\ pc = "parsing"
    /\ \E n \in {parseStep(world.m)} :
          /\ n # world.m
          /\ world' = [m |-> n,
                       heads |-> [d \in 1..Len(n.k) |->
                                     IF d = Len(n.k) /\ AtLoopHead(n) THEN Cursor(n.p)
                                     ELSE IF d \in DOMAIN world.heads THEN world.heads[d]
                                     ELSE -1]]
          /\ IF n.k = <<>>
             THEN /\ pc' = "parsed"
                  /\ run' = [NoRun EXCEPT !.via = "ParseProgram", !.code = argv,
                                          !.errors = n.p.errors, !.result = n.ret]
             ELSE UNCHANGED <<pc, run>>
    /\ UNCHANGED <<argv, stdin, buffer, console, status>>

NextTerminate == parserStep

SpecTerminate == InitTerminate /\ [][NextTerminate]_vars

\* a loop comes back to its head further on in the input than it was there before
LoopAdvances ==
    LET m == world.m
        n == world'.m
    IN  /\ AtLoopHead(n)
        /\ Len(m.k) = Len(n.k)
        /\ Head(m.k).pc \in {1, 2}
        => Cursor(n.p) > world.heads[Len(n.k)]

\* once the lookahead is EOF the lexer gives EOF, and again EOF after that
EndOfInputStays ==
    world.m.p.peekToken.Type = "EOF" =>
        /\ NextToken(world.m.p.l).tok.Type = "EOF"
        /\ NextToken(NextToken(world.m.p.l).l).tok.Type = "EOF"

\* while ParseProgram runs it has a next step, and it has taken fewer steps than a
\* bound that grows with the length of the input only: the steps being counted,
\* ParseProgram returns after at most that many
StepsBounded ==
    pc = "parsing" =>
        /\ parseStep(world.m) # world.m
        /\ world.m.steps < StepsPerCharacter * (Len(argv) + 1)
        /\ world.m.steps < ParseFuel

ReturnsAtEOF ==
    pc = "parsed" => world.m.k = <<>> /\ world.m.p.curToken.Type = "EOF"

\* C27: ParseProgram comes to its end on every input, with EOF as the current
\* token; every turn of the top-level loop and of the loop of a block moves the
\* parser on by at least one token, and the lexer gives EOF for good once the
\* input has ended
C27_ParserTerminates ==
    /\ [](StepsBounded /\ ReturnsAtEOF /\ EndOfInputStays)
    /\ [][LoopAdvances]_vars

\* ParseProgram has come to its end with diagnostics on a Map that the input cuts
\* short, having passed the head of its loop
C27_Witness ==
    /\ pc = "parsed"
    /\ argv = "{x: 1,\n"
    /\ run.errors # <<>>
    /\ world.m.steps > 3
    /\ world.m.p.curToken.Type = "EOF"

(***************************************************************************)
(* slice: pearl -e on `let arr = [1, 2, 3]; let s = slice(arr, ...)`       *)
(* followed by one change of s or of arr                                   *)
(***************************************************************************)
SliceStarts == {0, 1, 2}

\* the end of the slice; 4 stands for a call without its third argument
SliceEnds == {1, 2, 3, 4}

\* the changes of the Array named a
SliceChanges(a) ==
    {a \o "[0] = 9", "push(" \o a \o ", 9)", "pop(" \o a \o ")", "shift(" \o a \o ")",
     "unshift(" \o a \o ", 9)"}

SliceCall(start, end) ==
    "slice(arr, " \o Itoa(start) \o (IF end = 4 THEN "" ELSE ", " \o Itoa(end)) \o ")"

\* the elements of slice([1, 2, 3], start, end), displayed
SliceShown(start, end) ==
    LET to == IF end = 4 THEN 3 ELSE end
    IN  "[" \o Join([i \in 1..(IF to > start THEN to - start ELSE 0) |-> Itoa(start + i)], ", ")
            \o "]"

InitSlice ==
    /\ pc = "expression"
    /\ \E start \in SliceStarts, end \in SliceEnds, on \in {"s", "arr"} :
          \E change \in SliceChanges(on) :
              argv = [code |-> "let arr = [1, 2, 3]; let s = " \o SliceCall(start, end)
                                   \o "; " \o change \o "; [arr, s]",
                      start |-> start, end |-> end, on |-> on, change |-> change]
    /\ stdin = <<>>
    /\ buffer = [text |-> "", inMultiline |-> FALSE]
    /\ run = NoRun
    /\ world = NoHeap
    /\ console = <<>>
    /\ status = -1

NextSlice == runExpression

SpecSlice == InitSlice /\ [][NextSlice]_vars

Shown(name) == Inspect(world.h, Global(name))

\* C28: a change of the Array that slice returned leaves arr as it was, and a
\* change of arr leaves the returned Array as it was
C28_SliceIndependent ==
    pc = "ran" /\ run.via = "runCode" =>
        /\ run.errors = <<>>
        /\ argv.on = "s" => Shown("arr") = "[1, 2, 3]"
        /\ argv.on = "arr" => Shown("s") = SliceShown(argv.start, argv.end)

\* what a change of s does to arr: an assignment to s[0] is an assignment to
\* arr[start], a push onto a slice that ends before the end of arr is an assignment
\* to arr[end]; a pop, a shift and an unshift leave arr as it was
SliceWritesThrough ==
    pc = "ran" /\ run.via = "runCode" /\ argv.on = "s" =>
        LET to == IF argv.end = 4 THEN 3 ELSE argv.end
            with(i) == "[" \o Join([j \in 1..3 |-> IF j = i + 1 THEN "9" ELSE Itoa(j)], ", ")
                           \o "]"
        IN  Shown("arr") =
                CASE argv.change = "s[0] = 9" /\ to > argv.start -> with(argv.start)
                  [] argv.change = "push(s, 9)" /\ to > argv.start /\ to < 3 -> with(to)
                  [] OTHER -> "[1, 2, 3]"

\* what a change of arr does to s: an assignment to arr[0] is an assignment to s[0]
\* when the slice starts at 0 and is not empty; no other change reaches s
ArrayWritesThrough ==
    pc = "ran" /\ run.via = "runCode" /\ argv.on = "arr" =>
        LET to == IF argv.end = 4 THEN 3 ELSE argv.end
        IN  Shown("s") =
                IF argv.change = "arr[0] = 9" /\ argv.start = 0 /\ to > 0
                THEN "[" \o Join([j \in 1..to |-> IF j = 1 THEN "9" ELSE Itoa(j)], ", ") \o "]"
                ELSE SliceShown(argv.start, argv.end)

(***************************************************************************)
(* for over an Array that the body changes: pearl -e on                    *)
(* `let a = ...; let seen = []; for x in a { changes of a; push(seen, x) }`*)
(***************************************************************************)
\* the Arrays: literals, and an Array grown by push, which has room to spare
LoopArrays ==
    {[text |-> "[1]", shown |-> "[1]", n |-> 1],
     [text |-> "[1, 2]", shown |-> "[1, 2]", n |-> 2],
     [text |-> "[1, 2, 3]", shown |-> "[1, 2, 3]", n |-> 3],
     [text |-> "push([1, 2], 3)", shown |-> "[1, 2, 3]", n |-> 3]}

\* the changes of the body; unshift is not among those the claim names
BodyChanges == {"push(a, 9)", "pop(a)", "shift(a)", "unshift(a, 9)"}

InitMutate ==
    /\ pc = "expression"
    /\ \E array \in LoopArrays, changes \in SeqsOver(BodyChanges, 1, MaxOps) :
          argv = [code |-> "let a = " \o array.text \o "; let seen = []; for x in a { "
                               \o Join(changes, "; ") \o "; push(seen, x) } [a, seen]",
                  array |-> array, changes |-> changes]
    /\ stdin = <<>>
    /\ buffer = [text |-> "", inMultiline |-> FALSE]
    /\ run = NoRun
    /\ world = NoHeap
    /\ console = <<>>
    /\ status = -1

NextMutate == runExpression

SpecMutate == InitMutate /\ [][NextMutate]_vars

Named == \A i \in 1..Len(argv.changes) : argv.changes[i] # "unshift(a, 9)"

\* C29: the body runs once for every element the Array held when the loop began,
\* in the order of their indexes, whatever pushes, pops and shifts of that Array
\* the body makes
C29_LoopOverStart ==
    pc = "ran" /\ run.via = "runCode" /\ Named =>
        /\ run.errors = <<>> /\ status = 0
        /\ Shown("seen") = argv.array.shown

\* the body runs as many times as the Array was long when the loop began
LoopRunsLengthTimes ==
    pc = "ran" /\ run.via = "runCode" =>
        /\ run.errors = <<>> /\ status = 0
        /\ Len(Elements(world.h, Global("seen"))) = argv.array.n

\* the loop variable is bound to something else than the element at the start only
\* after a pop that a push follows, in the body or in a later turn
OnlyAfterPopAndPush ==
    pc = "ran" /\ run.via = "runCode" /\ Shown("seen") # argv.array.shown =>
        /\ \E i \in 1..Len(argv.changes) : argv.changes[i] = "pop(a)"
        /\ \E i \in 1..Len(argv.changes) : argv.changes[i] = "push(a, 9)"
        /\ argv.array.n > 1

(***************************************************************************)
(* Diagnostics inside interpolation spans: pearl -e on a string literal    *)
(* whose span holds an expression that does not parse                      *)
(***************************************************************************)
\* texts of a span for which the sub-parser records a diagnostic and whose first
\* statement is an expression statement
BrokenSpans == {"1 +", "(1", ")", "x + * 2", "-", "[1, ", "f(", "x |>", "1 2 +", "!", "x[1"}

SpanBefore == {"", "a", "{x}"}

SpanAfter == {"", "b"}

BeforeLiteral == {"let x = 10; ", "let x = [1]; let f = fn(a) { a }; "}

InitBrokenSpan ==
    /\ pc = "expression"
    /\ \E statements \in BeforeLiteral, before \in SpanBefore, inner \in BrokenSpans,
          after \in SpanAfter :
              argv = [code |-> statements \o "\"" \o before \o "{" \o inner \o "}" \o after
                                   \o "\"",
                      inner |-> inner,
                      at |-> IF before = "" THEN 1 ELSE 2,
                      literal |-> IF statements = "let x = 10; " THEN 2 ELSE 3]
    /\ stdin = <<>>
    /\ buffer = [text |-> "", inMultiline |-> FALSE]
    /\ run = NoRun
    /\ world = NoHeap
    /\ console = <<>>
    /\ status = -1

NextBrokenSpan == runExpression

SpecBrokenSpan == InitBrokenSpan /\ [][NextBrokenSpan]_vars

\* C30: the diagnostics of the sub-parser of a span are not among the diagnostics
\* of the parser of the program, so the program is evaluated; the expression of the
\* first statement of the span is a part of the literal, incomplete as it is
C30_SpanDiagnosticsLost ==
    pc = "ran" /\ run.via = "runCode" =>
        LET sub == Parse(argv.inner)
            literal(parsed) == parsed.program.Statements[argv.literal].Expression
            parts == literal(Parse(argv.code)).Parts
        IN  /\ sub.errors # <<>>
            /\ sub.program.Statements[1].kind = "ExpressionStatement"
            /\ run.errors = <<>>
            /\ run.evals = 1
            /\ Len(parts) >= argv.at
            /\ parts[argv.at] = ExprPart(sub.program.Statements[1].Expression)

\* "a{1 +}b" has been evaluated, which ended in a panic on the missing operand
C30_Witness ==
    /\ pc = "ran"
    /\ argv.code = "let x = 10; \"a{1 +}b\""
    /\ run.errors = <<>>
    /\ run.evals = 1
    /\ status = 2

====